---- MODULE Spec2Model ----
(***************************************************************************)
(* A model of the Kotlin grammar of src/grammar.js: the literal tokens of  *)
(* the lexical grammar, the precedence table and the declared conflicts,   *)
(* and the parser the grammar generates, which keeps one stack version per *)
(* reading of the input that the precedences and the declared conflicts    *)
(* leave open and builds the concrete syntax tree of each.                 *)
(***************************************************************************)
EXTENDS Integers, Sequences, FiniteSets, TLC

VARIABLES text, offset, tokens, lexemes, pos, versions, pc

vars == <<text, offset, tokens, lexemes, pos, versions, pc>>

(***************************************************************************)
(* Bounds of the model.                                                    *)
(***************************************************************************)
MaxOps == 2

MaxStatements == 4

(***************************************************************************)
(* Syntax tree nodes.  A node carries its kind, the field name under which *)
(* its parent holds it ("" for none) and its children in source order.     *)
(* Anonymous tokens are leaves whose kind is the token's text.             *)
(***************************************************************************)
Node(kind, kids) == [kind |-> kind, field |-> "", kids |-> kids]

Leaf(kind) == Node(kind, <<>>)

Field(field_name, n) == [n EXCEPT !.field = field_name]

blank(field_name) == [kind |-> "blank", field |-> field_name, kids |-> <<>>]

optional_without_placeholder(field_name, kids) ==
  [i \in DOMAIN kids |-> Field(field_name, kids[i])]

optional_with_placeholder(field_name, kids) ==
  IF kids = <<>>
  THEN <<blank(field_name)>>
  ELSE [i \in DOMAIN kids |-> Field(field_name, kids[i])]

(***************************************************************************)
(* The precedence table.                                                   *)
(***************************************************************************)
PREC ==
  [POSTFIX |-> 16, PREFIX |-> 15, TYPE_RHS |-> 14, AS |-> 13,
   MULTIPLICATIVE |-> 12, ADDITIVE |-> 11, RANGE |-> 10, INFIX |-> 9,
   ELVIS |-> 8, CHECK |-> 7, COMPARISON |-> 6, EQUALITY |-> 5,
   CONJUNCTION |-> 4, DISJUNCTION |-> 3, SPREAD |-> 2,
   SIMPLE_USER_TYPE |-> 2, VAR_DECL |-> 1, ASSIGNMENT |-> 1, BLOCK |-> 1,
   LAMBDA_LITERAL |-> 0, RETURN_OR_THROW |-> 0, COMMENT |-> 0]

(***************************************************************************)
(* Operator tokens.                                                        *)
(***************************************************************************)
_assignment_and_operator == {"+=", "-=", "*=", "/=", "%="}

_equality_operator == {"!=", "!==", "==", "==="}

_comparison_operator == {"<", ">", "<=", ">="}

_in_operator == {"in", "!in"}

_is_operator == {"is", "!is"}

_additive_operator == {"+", "-"}

_multiplicative_operator == {"*", "/", "%"}

_as_operator == {"as", "as?"}

_prefix_unary_operator == {"++", "--", "-", "+", "!"}

_postfix_unary_operator == {"++", "--", "!!"}

_member_access_operator == {".", "?.", "::"}

(***************************************************************************)
(* Identifiers: a simple identifier is a lexical identifier or one of the  *)
(* soft keywords.                                                          *)
(***************************************************************************)
SoftKeywords == {"expect", "data", "inner", "actual", "set", "get"}

simple_identifier_lexical_only == {"_alpha_identifier"}

simple_identifier == {"_alpha_identifier"} \cup SoftKeywords

SimpleIdentifierNode(t) ==
  IF t = "_alpha_identifier"
  THEN Node("simple_identifier", <<Leaf("lexical_identifier_")>>)
  ELSE Node("simple_identifier", <<Leaf(t)>>)

\* alias($.simple_identifier, $.type_identifier) and the like
alias(n, kind) == [n EXCEPT !.kind = kind]

class_modifier == {"sealed", "annotation", "data", "inner"}

platform_modifier == {"expect", "actual"}

ModifierNode(t) ==
  IF t \in class_modifier
  THEN Node("class_modifier", <<Leaf(t)>>)
  ELSE Node("platform_modifier", <<Leaf(t)>>)

(***************************************************************************)
(* Literal constants.                                                      *)
(***************************************************************************)
boolean_literal == {"true", "false"}

_literal_constant ==
  boolean_literal \cup
  {"integer_literal", "hex_literal", "bin_literal", "real_literal", "null"}

LiteralNode(t) ==
  IF t \in boolean_literal
  THEN Node("boolean_literal", <<Leaf(t)>>)
  ELSE Leaf(t)

(***************************************************************************)
(* Expression productions: the precedence and associativity each is        *)
(* declared with.  prec.right(rule) without a number declares level 0.     *)
(***************************************************************************)
Production_right_comparison ==
  [prefix_expression |-> [prec |-> 0, assoc |-> "right"],
   as_expression |-> [prec |-> PREC.AS, assoc |-> "left"],
   multiplicative_expression |->
     [prec |-> PREC.MULTIPLICATIVE, assoc |-> "left"],
   additive_expression |-> [prec |-> PREC.ADDITIVE, assoc |-> "left"],
   range_expression |-> [prec |-> PREC.RANGE, assoc |-> "left"],
   infix_expression |-> [prec |-> PREC.INFIX, assoc |-> "left"],
   elvis_expression |-> [prec |-> PREC.ELVIS, assoc |-> "left"],
   check_expression |-> [prec |-> PREC.CHECK, assoc |-> "left"],
   comparison_expression |-> [prec |-> PREC.COMPARISON, assoc |-> "right"],
   equality_expression |-> [prec |-> PREC.EQUALITY, assoc |-> "left"],
   conjunction_expression |-> [prec |-> PREC.CONJUNCTION, assoc |-> "left"],
   disjunction_expression |-> [prec |-> PREC.DISJUNCTION, assoc |-> "left"],
   postfix_expression |-> [prec |-> PREC.POSTFIX, assoc |-> "left"],
   call |-> [prec |-> PREC.POSTFIX, assoc |-> "left"],
   indexing_expression |-> [prec |-> PREC.POSTFIX, assoc |-> "left"],
   navigation_expression |-> [prec |-> PREC.POSTFIX, assoc |-> "left"],
   spread_expression |-> [prec |-> PREC.SPREAD, assoc |-> "left"],
   assignment |-> [prec |-> PREC.ASSIGNMENT, assoc |-> "left"]]

Production ==
  [postfix_expression |-> [prec |-> PREC.POSTFIX, assoc |-> "left"],
   call |-> [prec |-> PREC.POSTFIX, assoc |-> "left"],
   indexing_expression |-> [prec |-> PREC.POSTFIX, assoc |-> "left"],
   navigation_expression |-> [prec |-> PREC.POSTFIX, assoc |-> "left"],
   prefix_expression |-> [prec |-> 0, assoc |-> "right"],
   as_expression |-> [prec |-> PREC.AS, assoc |-> "left"],
   spread_expression |-> [prec |-> PREC.SPREAD, assoc |-> "left"],
   multiplicative_expression |->
     [prec |-> PREC.MULTIPLICATIVE, assoc |-> "left"],
   additive_expression |-> [prec |-> PREC.ADDITIVE, assoc |-> "left"],
   range_expression |-> [prec |-> PREC.RANGE, assoc |-> "left"],
   infix_expression |-> [prec |-> PREC.INFIX, assoc |-> "left"],
   elvis_expression |-> [prec |-> PREC.ELVIS, assoc |-> "left"],
   check_expression |-> [prec |-> PREC.CHECK, assoc |-> "left"],
   comparison_expression |-> [prec |-> PREC.COMPARISON, assoc |-> "left"],
   equality_expression |-> [prec |-> PREC.EQUALITY, assoc |-> "left"],
   conjunction_expression |-> [prec |-> PREC.CONJUNCTION, assoc |-> "left"],
   disjunction_expression |-> [prec |-> PREC.DISJUNCTION, assoc |-> "left"],
   assignment |-> [prec |-> PREC.ASSIGNMENT, assoc |-> "left"]]

\* The binary production whose operator the token t is.
BinaryProduction(t) ==
  CASE t \in _multiplicative_operator -> "multiplicative_expression"
    [] t \in _additive_operator -> "additive_expression"
    [] t = ".." -> "range_expression"
    [] t \in simple_identifier -> "infix_expression"
    [] t = "?:" -> "elvis_expression"
    [] t \in _in_operator \cup _is_operator -> "check_expression"
    [] t \in _comparison_operator -> "comparison_expression"
    [] t \in _equality_operator -> "equality_expression"
    [] t = "&&" -> "conjunction_expression"
    [] t = "||" -> "disjunction_expression"
    [] t \in _as_operator -> "as_expression"
    [] OTHER -> ""

\* The tokens that begin a call_suffix: type_arguments, value_arguments or
\* an annotated_lambda (annotations, a label, the lambda literal).
CallSuffixStart == {"<", "(", "{", "@", "label"}

\* The productions "X -> expression_ . rest" that the token t continues.
ContinuesWith(t) ==
  (IF BinaryProduction(t) # "" THEN {BinaryProduction(t)} ELSE {})
  \cup (IF t \in CallSuffixStart THEN {"call"} ELSE {})
  \cup (IF t \in _postfix_unary_operator THEN {"postfix_expression"} ELSE {})
  \cup (IF t \in _member_access_operator
        THEN {"navigation_expression"} ELSE {})
  \cup (IF t = "[" THEN {"indexing_expression"} ELSE {})

(***************************************************************************)
(* The declared conflicts that involve expressions.                        *)
(***************************************************************************)
conflicts ==
  {{"call", "prefix_expression", "comparison_expression"},
   {"call", "range_expression", "comparison_expression"},
   {"call", "elvis_expression", "comparison_expression"},
   {"call", "check_expression", "comparison_expression"},
   {"call", "additive_expression", "comparison_expression"},
   {"call", "infix_expression", "comparison_expression"},
   {"call", "multiplicative_expression", "comparison_expression"},
   {"type_arguments", "_comparison_operator"},
   {"platform_modifier", "simple_identifier"},
   {"class_modifier", "simple_identifier"},
   {"setter", "simple_identifier"},
   {"getter", "simple_identifier"},
   {"if"},
   {"if_clause", "else_if_clause"}}

(***************************************************************************)
(* What the generated parser does when the production P is complete on top *)
(* of the stack and the lookahead t could also extend the expression: the  *)
(* levels of the productions t continues are compared with P's level; if   *)
(* all are higher t is shifted, if all are lower P is reduced, if all are  *)
(* equal P's associativity decides, and otherwise both actions stay in the *)
(* table when the productions form a declared conflict.                    *)
(***************************************************************************)
Resolve(P, t) ==
  LET sp == {Production[X].prec : X \in ContinuesWith(t)}
      rp == Production[P].prec
      more == \E p \in sp : p > rp
      less == \E p \in sp : p < rp
  IN  IF sp = {} THEN "reduce"
      ELSE IF more /\ ~less THEN "shift"
      ELSE IF less /\ ~more THEN "reduce"
      ELSE IF ~less /\ ~more /\ Production[P].assoc = "left" THEN "reduce"
      ELSE IF ~less /\ ~more /\ Production[P].assoc = "right" THEN "shift"
      ELSE IF ({P} \cup ContinuesWith(t)) \in conflicts THEN "both"
      ELSE "unresolved"

(***************************************************************************)
(* The parse stack.  An entry holds a grammar symbol (or the token that    *)
(* opened an unfinished construct), the binary production an operator      *)
(* entry belongs to, and the tree built for it.                            *)
(***************************************************************************)
Entry(sym, prod, tree) == [sym |-> sym, prod |-> prod, tree |-> tree]

NoEntry == Entry("", "", Leaf(""))

Top(s) == IF s = <<>> THEN NoEntry ELSE s[Len(s)]

Under(s) == IF Len(s) < 2 THEN NoEntry ELSE s[Len(s) - 1]

Pop(s, n) == SubSeq(s, 1, Len(s) - n)

Push(s, sym, prod, tree) == Append(s, Entry(sym, prod, tree))

_semi_automatic_only == {"_automatic_semicolon"}

_semi == {"_automatic_semicolon", ";"}

\* The automatic terminator is a hidden token: only ';' gives a leaf.
terminator(t) == IF t = ";" THEN <<Leaf(t)>> ELSE <<>>

expression_(n) == Node("expression_", <<n>>)

primary_expression_(n) == expression_(Node("primary_expression_", <<n>>))

lambda_literal == Node("lambda_literal", <<Leaf("{"), Leaf("}")>>)

annotated_lambda == Node("annotated_lambda", <<lambda_literal>>)

value_arguments(arguments) ==
  Node("value_arguments",
       <<Leaf("(")>> \o optional_with_placeholder("argument_list", arguments)
       \o <<Leaf(")")>>)

type_arguments(type) ==
  Node("type_arguments",
       <<Leaf("<"), Node("type_projection", <<type>>), Leaf(">")>>)

user_type(kids) == Node("type_reference_", <<Node("user_type", kids)>>)

statement_(n) == Node("statement_", <<Field("statement", n)>>)

statement(n, t) == Node("statement", <<n>> \o terminator(t))

\* The first of the parts that has one of the kinds.
First(parts, kinds) ==
  IF \E i \in DOMAIN parts : parts[i].kind \in kinds
  THEN CHOOSE i \in DOMAIN parts :
         /\ parts[i].kind \in kinds
         /\ \A j \in 1..(i - 1) : parts[j].kind \notin kinds
  ELSE Len(parts) + 1

\* The parts of a program as the parser reduced them, from left to right:
\* what precedes the imports, the imports and the statements.
program(parts) ==
  LET statements == First(parts, {"statement"})
      imports == First(parts, {"import", "statement"})
  IN  Node("program",
           SubSeq(parts, 1, imports - 1)
           \o optional_with_placeholder(
                "import_list", SubSeq(parts, imports, statements - 1))
           \o optional_with_placeholder(
                "statement_list", SubSeq(parts, statements, Len(parts))))

\* The parts of a program, and for each the parts one of which (or the
\* start of the text) it follows.
program_parts_accepting_imports_anywhere ==
  [shebang_line |-> {""},
   file_annotation |-> {"", "shebang_line", "file_annotation"},
   package_header |-> {"", "shebang_line", "file_annotation"},
   import |-> {"", "shebang_line", "file_annotation", "package_header",
               "import", "statement"},
   statement |-> {"", "shebang_line", "file_annotation", "package_header",
                  "import", "statement"}]

program_parts ==
  [shebang_line |-> {""},
   file_annotation |-> {"", "shebang_line", "file_annotation"},
   package_header |-> {"", "shebang_line", "file_annotation"},
   import |-> {"", "shebang_line", "file_annotation", "package_header",
               "import"},
   statement |-> {"", "shebang_line", "file_annotation", "package_header",
                  "import", "statement"}]

AtStart(s, part) == Top(s).sym \in program_parts[part]

AtStatementStart(s) == AtStart(s, "statement")

ExpectsOperand(s) ==
  AtStatementStart(s)
  \/ Top(s).sym \in {"binop", "prefixop", "(", "call(", "=", "${",
                     "if(", "if_head", "else", "assignop"}

\* The modifiers entry that precedes the declaration keyword on top of s.
ModifiersOf(s) ==
  IF Top(s).sym = "modifiers" THEN <<Top(s).tree>> ELSE <<>>

DropModifiers(s) == IF Top(s).sym = "modifiers" THEN Pop(s, 1) ELSE s

accessor(mods, t) ==
  Node(IF t = "get" THEN "getter" ELSE "setter", mods \o <<Leaf(t)>>)

\* call: seq(expression_, call_suffix); s ends with the callee and, when
\* the call has them, its type arguments.
call(s, suffix) ==
  LET ta == IF Top(s).sym = "type_arguments" THEN <<Top(s).tree>> ELSE <<>>
      base == IF Top(s).sym = "type_arguments" THEN Pop(s, 1) ELSE s
  IN  Push(Pop(base, 1), "expression_", "",
           expression_(Node("call",
             <<Top(base).tree, Node("call_suffix", ta \o <<suffix>>)>>)))

(***************************************************************************)
(* Shifting the token t onto the stack s: the set of stacks that result    *)
(* (empty when the token is not acceptable, several when a soft keyword    *)
(* is both an identifier and a modifier or accessor keyword).  Productions *)
(* of the postfix level are complete as soon as their last token is        *)
(* shifted and are reduced at once.                                        *)
(***************************************************************************)
ShiftOperand(s, t) ==
  (IF t \in simple_identifier
   THEN {Push(s, "expression_", "",
              primary_expression_(SimpleIdentifierNode(t)))}
   ELSE {})
  \cup (IF t \in _literal_constant
        THEN {Push(s, "expression_", "", primary_expression_(LiteralNode(t)))}
        ELSE {})
  \cup (IF t \in _prefix_unary_operator
        THEN {Push(s, "prefixop", "prefix_expression", Leaf(t))}
        ELSE {})
  \cup (IF t = "(" \/ (t = "{" /\ Top(s).sym \notin {"if_head", "else"})
        THEN {Push(s, t, "", Leaf(t))}
        ELSE {})
  \cup (IF t = "if" THEN {Push(s, "if", "", Leaf(t))} ELSE {})
  \cup (IF t = "try"
        THEN {Push(s, "after try", "", Node("try_clause", <<Leaf(t)>>))}
        ELSE {})
  \cup (IF t = "\""
        THEN {Push(s, "line_string_literal", "",
                   Node("line_string_literal", <<Leaf(t)>>))}
        ELSE {})
  \cup (IF t = "\"\"\""
        THEN {Push(s, "multi_line_string_literal", "",
                   Node("multi_line_string_literal", <<Leaf(t)>>))}
        ELSE {})

\* The string literal on top of s gets one more child.
AddChild(s, n) ==
  Push(Pop(s, 1), Top(s).sym, "",
       [Top(s).tree EXCEPT !.kids = Append(@, n)])

line_string_content_(kids) == Node("line_string_content_", kids)

interpolation_(kids) == Node("interpolation_", kids)

string_literal(n) == primary_expression_(Node("string_literal", <<n>>))

\* The tokens inside a string literal: content, the parts of an
\* interpolation, and the closing quotes.
ShiftString(s, t) ==
  LET top == Top(s)
      under == Under(s)
  IN  (IF top.sym \in {"line_string_literal", "multi_line_string_literal"}
          /\ t = "comment"
       THEN {AddChild(s, Leaf(t))}
       ELSE {})
      \cup
      (IF top.sym = "line_string_literal"
       THEN IF t \in {"_line_str_text", "_escaped_identifier"}
            THEN {AddChild(s, line_string_content_(<<Leaf(t)>>))}
            ELSE IF t \in {"$", "${", "\\u"}
            THEN {Push(s, t, "", Leaf(t))}
            ELSE IF t = "\""
            THEN {Push(Pop(s, 1), "expression_", "",
                       string_literal(AddChild(s, Leaf(t))[Len(s)].tree))}
            ELSE {}
       ELSE {})
      \cup (IF top.sym = "multi_line_string_literal"
            THEN IF t \in {"_multi_line_str_text", "\""}
                 THEN {AddChild(s, Leaf(t))}
                 ELSE IF t \in {"$", "${"}
                 THEN {Push(s, t, "", Leaf(t))}
                 ELSE IF t = "\"\"\""
                 THEN {Push(Pop(s, 1), "expression_", "",
                            string_literal(AddChild(s, Leaf(t))[Len(s)].tree))}
                 ELSE {}
            ELSE {})
      \cup (IF top.sym = "\\u" /\ t = "[0-9a-fA-F]{4}"
            THEN {AddChild(Pop(s, 1),
                           line_string_content_(<<top.tree, Leaf(t)>>))}
            ELSE {})
      \cup (IF top.sym = "$" /\ t \in simple_identifier
            THEN {AddChild(Pop(s, 1),
                           interpolation_(
                             <<top.tree,
                               alias(SimpleIdentifierNode(t),
                                     "interpolated_identifier")>>))}
            ELSE {})
      \cup (IF top.sym = "expression_" /\ under.sym = "${" /\ t = "}"
            THEN {AddChild(Pop(s, 2),
                           interpolation_(
                             <<under.tree,
                               alias(top.tree, "interpolated_expression"),
                               Leaf(t)>>))}
            ELSE {})

control_structure_body(n) == Node("control_structure_body", <<n>>)

enclosed_body ==
  Node("enclosed_body",
       <<Leaf("{")>> \o optional_with_placeholder("statement_list", <<>>)
       \o <<Leaf("}")>>)

\* The tokens of an if expression: 'if', '(', the condition and ')' are
\* collected in one entry; a body that is ';' or a block is complete when
\* its last token is shifted.
ShiftIf(s, t) ==
  LET top == Top(s)
      under == Under(s)
  IN  (IF top.sym = "if" /\ t = "("
       THEN {Push(Pop(s, 1), "if(", "", Node("if_head", <<top.tree, Leaf(t)>>))}
       ELSE {})
      \cup (IF top.sym = "expression_" /\ under.sym = "if(" /\ t = ")"
            THEN {Push(Pop(s, 2), "if_head", "",
                       [under.tree EXCEPT
                          !.kids = @ \o <<Field("condition", top.tree),
                                          Leaf(t)>>])}
            ELSE {})
      \cup (IF top.sym \in {"if_head", "else"} /\ t = ";"
            THEN {Push(s, "control_structure_body", "", Leaf(t))}
            ELSE {})
      \cup (IF top.sym \in {"if_head", "else"} /\ t = "{"
            THEN {Push(s, "body{", "", Leaf(t))}
            ELSE {})
      \cup (IF top.sym = "body{" /\ t = "}"
            THEN {Push(Pop(s, 1), "control_structure_body", "",
                       control_structure_body(enclosed_body))}
            ELSE {})
      \cup (IF top.sym \in {"if_clause", "else_if_clause"} /\ t = "else"
            THEN {Push(s, "else", "", Leaf(t))}
            ELSE {})

\* The tokens of try_clause, catch, finally_clause and function after the
\* first: the entry that holds the tokens so far, the next token and the
\* entry after it.
ClauseTokens ==
  {<<"after try", "{", "after try {">>,
   <<"after try {", "}", "try_clause">>,
   <<"after catch", "(", "after catch (">>,
   <<"after catch (", "_alpha_identifier", "after catch name">>,
   <<"after catch name", ":", "after catch :">>,
   <<"after catch :", "_alpha_identifier", "after catch type">>,
   <<"after catch type", ")", "after catch )">>,
   <<"after catch )", "{", "after catch {">>,
   <<"after catch {", "}", "catch">>,
   <<"after finally", "{", "after finally {">>,
   <<"after finally {", "}", "finally_clause">>,
   <<"after fun", "_alpha_identifier", "after fun name">>,
   <<"after fun name", "(", "after fun (">>,
   <<"after fun (", "_alpha_identifier", "after parameter name">>,
   <<"after parameter name", ":", "after parameter :">>,
   <<"after parameter :", "_alpha_identifier", "after parameter">>,
   <<"after parameter", ")", "function_value_parameters_">>,
   <<"after fun (", ")", "function_value_parameters_">>,
   <<"function_value_parameters_", ":", "after fun :">>,
   <<"after fun :", "_alpha_identifier", "function type">>}

\* try_clause, catch, finally_clause and function: the tokens of each are
\* collected in one entry.
ShiftClause(s, t) ==
  LET top == Top(s)
  IN  {Push(Pop(s, 1), row[3], "",
            [top.tree EXCEPT !.kids = Append(@, Leaf(t))]) :
         row \in {r \in ClauseTokens :
                    /\ r[1] = top.sym
                    /\ \/ r[2] = t
                       \/ r[2] = "_alpha_identifier"
                          /\ t \in simple_identifier}}
      \cup (IF top.sym \in {"try_clause", "catch"} /\ t = "catch"
            THEN {Push(s, "after catch", "", Node("catch", <<Leaf(t)>>))}
            ELSE {})
      \cup (IF top.sym \in {"try_clause", "catch"} /\ t = "finally"
            THEN {Push(s, "after finally", "",
                       Node("finally_clause", <<Leaf(t)>>))}
            ELSE {})
      \cup (IF AtStatementStart(s) /\ t = "fun"
            THEN {Push(s, "after fun", "", Node("function", <<Leaf(t)>>))}
            ELSE {})

\* a type that is one identifier, and alias($._type, $.type)
type_reference_(leaf) ==
  Node("type_reference_",
       <<Node("user_type",
              <<alias(SimpleIdentifierNode(leaf.kind), "type_identifier")>>)>>)

type(leaf) == Node("type", <<type_reference_(leaf)>>)

\* The nodes of the clauses, of the collected tokens.
try_clause(leaves) == Node("try_clause", <<leaves[1], enclosed_body>>)

catch(leaves) ==
  Node("catch",
       <<leaves[1], leaves[2], SimpleIdentifierNode(leaves[3].kind),
         leaves[4], type_reference_(leaves[5]), leaves[6], enclosed_body>>)

finally_clause(leaves) == Node("finally_clause", <<leaves[1], enclosed_body>>)

parameter_(leaves) ==
  Node("parameter_",
       <<Field("identifier", SimpleIdentifierNode(leaves[1].kind)),
         Field("type_optional", leaves[2]),
         Field("type_optional", type(leaves[3]))>>)

\* a parameter without modifiers and without a default value
function_value_parameter_(leaves) ==
  Node("function_value_parameter_", <<parameter_(leaves)>>)

function_value_parameters_(leaves) ==
  Node("function_value_parameters_",
       <<leaves[1]>>
       \o optional_with_placeholder(
            "parameter_list",
            IF Len(leaves) = 2 THEN <<>>
            ELSE <<alias(function_value_parameter_(SubSeq(leaves, 2, 4)),
                         "parameter")>>)
       \o <<leaves[Len(leaves)]>>)

\* function: 'fun', the name, the parameters and the type.
function(leaves) ==
  LET typed == leaves[Len(leaves) - 1].kind = ":"
      head == IF typed THEN SubSeq(leaves, 1, Len(leaves) - 2) ELSE leaves
  IN  Node("function",
           <<leaves[1],
             Field("identifier", SimpleIdentifierNode(leaves[2].kind)),
             function_value_parameters_(SubSeq(head, 3, Len(head)))>>
           \o optional_with_placeholder(
                "type_optional",
                IF typed
                THEN <<leaves[Len(leaves) - 1], type(leaves[Len(leaves)])>>
                ELSE <<>>))

\* shebang_line, file_annotation, package_header and import: the tokens of
\* each are collected in one entry, which is named after the rule when its
\* last token is shifted.
ShiftHeader(s, t) ==
  LET top == Top(s)
      begin(part) == {Push(s, "after " \o t, "", Node(part, <<Leaf(t)>>))}
      add(sym, kids) == {Push(Pop(s, 1), sym, "",
                              [top.tree EXCEPT !.kids = @ \o kids])}
      more(sym, n) == add(sym, <<n>>)
  IN  (IF t = "#!" /\ AtStart(s, "shebang_line")
       THEN begin("shebang_line") ELSE {})
      \cup (IF top.sym = "after #!" /\ t = "[^\\r\\n]*"
            THEN more("shebang_line", Leaf(t)) ELSE {})
      \cup (IF t = "@" /\ AtStart(s, "file_annotation")
            THEN begin("file_annotation") ELSE {})
      \cup (IF top.sym = "after @" /\ t = "file"
            THEN more("after file", Leaf(t)) ELSE {})
      \cup (IF top.sym = "after file" /\ t = ":"
            THEN more("after :", Leaf(t)) ELSE {})
      \cup (IF top.sym = "after :" /\ t \in simple_identifier
            THEN more("_unescaped_annotation",
                      Node("user_type",
                           <<alias(SimpleIdentifierNode(t),
                                   "type_identifier")>>))
            ELSE {})
      \cup (IF top.sym = "_unescaped_annotation" /\ t \in _semi
            THEN add("file_annotation", terminator(t)) ELSE {})
      \cup (IF t = "package" /\ AtStart(s, "package_header")
            THEN begin("package_header") ELSE {})
      \cup (IF t = "import" /\ AtStart(s, "import")
            THEN begin("import") ELSE {})
      \cup (IF top.sym \in {"after package", "after import"}
               /\ t \in simple_identifier
            THEN more(top.sym \o " identifier",
                      Node("identifier", <<SimpleIdentifierNode(t)>>))
            ELSE {})
      \cup (IF top.sym = "after package identifier" /\ t \in _semi
            THEN add("package_header", terminator(t)) ELSE {})
      \cup (IF top.sym = "after import identifier" /\ t \in _semi
            THEN add("import", terminator(t)) ELSE {})

ShiftDeclaration(s, t) ==
  (IF t \in {"val", "var"} THEN {Push(s, "val", "", Leaf(t))} ELSE {})
  \cup (IF t \in {"class", "interface"}
        THEN {Push(s, "class", "", Leaf(t))}
        ELSE {})
  \cup (IF t \in class_modifier \cup platform_modifier
        THEN {Push(DropModifiers(s), "modifiers", "",
                   Node("modifiers",
                        (IF Top(s).sym = "modifiers"
                         THEN Top(s).tree.kids ELSE <<>>)
                        \o <<ModifierNode(t)>>))}
        ELSE {})
  \cup (IF t \in {"get", "set"}
        THEN {Push(DropModifiers(s), "declaration_", "",
                   accessor(ModifiersOf(s), t))}
        ELSE {})

ShiftAfterExpression(s, t) ==
  (IF t \in _as_operator \cup _is_operator
   THEN {Push(s, "typeop", BinaryProduction(t), Leaf(t))}
   ELSE IF t = "<"
   THEN {Push(s, "<", "", Leaf(t))}
   ELSE IF t \in simple_identifier
   THEN {Push(s, "binop", BinaryProduction(t), SimpleIdentifierNode(t))}
   ELSE IF BinaryProduction(t) # ""
   THEN {Push(s, "binop", BinaryProduction(t), Leaf(t))}
   ELSE {})
  \cup (IF t \in _postfix_unary_operator
        THEN {Push(Pop(s, 1), "expression_", "",
                   expression_(Node("postfix_expression",
                                    <<Top(s).tree, Leaf(t)>>)))}
        ELSE {})
  \cup (IF t \in _member_access_operator
        THEN {Push(s, ".", "", Leaf(t))}
        ELSE {})
  \cup (IF t = "(" THEN {Push(s, "call(", "", Leaf(t))} ELSE {})
  \cup (IF t = "{" THEN {Push(s, "call{", "", Leaf(t))} ELSE {})
  \cup (IF t = ")" /\ Under(s).sym = "("
        THEN {Push(Pop(s, 2), "expression_", "",
                   primary_expression_(Node("parenthesized_expression",
                     <<Leaf("("), Top(s).tree, Leaf(")")>>)))}
        ELSE {})
  \cup (IF t = ")" /\ Under(s).sym = "call("
        THEN {call(Pop(s, 2),
                   value_arguments(<<Node("argument", <<Top(s).tree>>)>>))}
        ELSE {})

\* directly_assignable_expression, of the expression that is one
\* simple_identifier
directly_assignable_expression(n) ==
  Node("directly_assignable_expression",
       <<Field("assignment_variable", n.kids[1].kids[1])>>)

\* assignment: the operator after the identifier that begins a statement.
ShiftAssignment(s, t) ==
  LET top == Top(s)
  IN  IF /\ top.sym = "expression_"
         /\ AtStatementStart(Pop(s, 1))
         /\ top.tree = primary_expression_(top.tree.kids[1].kids[1])
         /\ top.tree.kids[1].kids[1].kind = "simple_identifier"
         /\ t \in {"="} \cup _assignment_and_operator
      THEN {Push(Push(Pop(s, 1), "directly_assignable_expression", "",
                      directly_assignable_expression(top.tree)),
                 "assignop", "", Leaf(t))}
      ELSE {}

\* assignment: the variable, the operator and the value on top of s.
ReduceAssignment(s) ==
  Push(Pop(s, 3), "statement_", "",
       statement_(Node("assignment",
                       <<s[Len(s) - 2].tree, Under(s).tree,
                         Node("assignment_value", <<Top(s).tree>>)>>)))

ShiftResults(s, t) ==
  LET top == Top(s)
  IN  (IF ExpectsOperand(s) THEN ShiftOperand(s, t) ELSE {})
      \cup ShiftAssignment(s, t)
      \cup ShiftString(s, t)
      \cup ShiftHeader(s, t)
      \cup ShiftIf(s, t)
      \cup ShiftClause(s, t)
      \cup (IF AtStatementStart(s) \/ top.sym = "modifiers"
            THEN ShiftDeclaration(s, t) ELSE {})
      \cup (IF top.sym = "expression_" THEN ShiftAfterExpression(s, t) ELSE {})
      \cup (IF top.sym = "." /\ t \in simple_identifier \cup {"class"}
            THEN {Push(Pop(s, 2), "expression_", "",
                       expression_(Node("navigation_expression",
                         <<Under(s).tree,
                           Node("navigation_suffix",
                                <<top.tree,
                                  IF t = "class" THEN Leaf(t)
                                  ELSE SimpleIdentifierNode(t)>>)>>)))}
            ELSE {})
      \cup (IF top.sym = "{" /\ t = "}"
            THEN {Push(Pop(s, 1), "expression_", "",
                       primary_expression_(lambda_literal))}
            ELSE {})
      \cup (IF top.sym = "call{" /\ t = "}"
            THEN {call(Pop(s, 1), annotated_lambda)}
            ELSE {})
      \cup (IF top.sym = "call(" /\ t = ")"
            THEN {call(Pop(s, 1), value_arguments(<<>>))}
            ELSE {})
      \cup (IF top.sym = "type_arguments" /\ t \in {"(", "{"}
            THEN {Push(s, IF t = "(" THEN "call(" ELSE "call{", "", Leaf(t))}
            ELSE {})
      \cup (IF top.sym \in {"typeop", "<"} /\ t \in simple_identifier
            THEN {Push(s, "type_identifier", "",
                       alias(SimpleIdentifierNode(t), "type_identifier"))}
            ELSE {})
      \cup (IF top.sym = "type_identifier" /\ t = "<"
            THEN {Push(s, "<", "", Leaf(t))}
            ELSE {})
      \cup (IF top.sym = "_type" /\ Under(s).sym = "<" /\ t = ">"
            THEN LET base == Pop(s, 2)
                     ta == type_arguments(top.tree)
                 IN  IF Top(base).sym = "type_identifier"
                     THEN {Push(Pop(base, 1), "_type", "",
                                user_type(<<Top(base).tree, ta>>))}
                     ELSE {Push(base, "type_arguments", "", ta)}
            ELSE {})
      \cup (IF top.sym = "val" /\ t \in simple_identifier
            THEN {Push(s, "variable", "",
                       Node("assignment_variable",
                            <<Field("identifier", SimpleIdentifierNode(t))>>
                            \o optional_with_placeholder("type_optional",
                                                         <<>>)))}
            ELSE {})
      \cup (IF top.sym = "variable" /\ t = "="
            THEN {Push(s, "=", "", Leaf(t))}
            ELSE {})
      \cup (IF top.sym = "class" /\ t \in simple_identifier
            THEN {Push(s, "class_name", "",
                       alias(SimpleIdentifierNode(t), "identifier"))}
            ELSE {})
      \cup (IF top.sym = "statement_" /\ t \in _semi
            THEN {Push(Pop(s, 1), "statement", "", statement(top.tree, t))}
            ELSE {})

(***************************************************************************)
(* Reductions.                                                             *)
(***************************************************************************)
\* A binary expression, an as/is expression or a prefix expression whose
\* last operand is on top of the stack.
ReduceExpression(s) ==
  LET op == Under(s)
  IN  IF op.sym = "prefixop"
      THEN Push(Pop(s, 2), "expression_", "",
                expression_(Node("prefix_expression",
                                 <<op.tree, Top(s).tree>>)))
      ELSE Push(Pop(s, 3), "expression_", "",
                expression_(Node(op.prod,
                  <<s[Len(s) - 2].tree, op.tree, Top(s).tree>>)))

\* property: [modifiers] val variable_declaration, with or without a value.
ReduceProperty(s) ==
  LET hasValue == Top(s).sym = "expression_"
      head == IF hasValue THEN Pop(s, 2) ELSE s
      value == IF hasValue
               THEN <<Node("assignment_value", <<Under(s).tree, Top(s).tree>>)>>
               ELSE <<>>
      declaration ==
        Node("variable_declaration",
             <<Node("assignment",
                    <<Top(head).tree>>
                    \o optional_with_placeholder(
                         "assignment_value_list_optional", value))>>)
      base == Pop(head, 2)
  IN  Push(DropModifiers(base), "declaration_", "",
           Node("property",
                ModifiersOf(base) \o <<Under(head).tree, declaration>>))

\* class_declaration: [modifiers] class identifier.
ReduceClass(s) ==
  LET base == Pop(s, 2)
  IN  Push(DropModifiers(base), "declaration_", "",
           Node("class_declaration",
                ModifiersOf(base) \o <<Under(s).tree, Top(s).tree>>
                \o optional_with_placeholder("implements_list_optional",
                                             <<>>)))

\* if_clause or else_if_clause: the body is on top of the stack, over the
\* condition; with an 'else' below the condition both rules are complete.
ReduceClause(s) ==
  LET clause == Under(s).tree.kids \o <<Top(s).tree>>
      if_clause == Push(Pop(s, 2), "if_clause", "", Node("if_clause", clause))
      else_if_clause ==
        Push(Pop(s, 3), "else_if_clause", "",
             Node("else_if_clause", <<s[Len(s) - 2].tree>> \o clause))
  IN  IF Len(s) >= 3 /\ s[Len(s) - 2].sym = "else"
      THEN IF {"if_clause", "else_if_clause"} \in conflicts
           THEN {if_clause, else_if_clause}
           ELSE {}
      ELSE {if_clause}

else_clause(s) ==
  Push(Pop(s, 2), "else_clause", "",
       Node("else_clause", <<Under(s).tree, Top(s).tree>>))

RECURSIVE Clauses(_, _)
\* The entries of a repeated clause on top of the stack.
Clauses(s, sym) ==
  IF Top(s).sym = sym
  THEN Append(Clauses(Pop(s, 1), sym), Top(s).tree)
  ELSE <<>>

\* if: the if_clause, the else_if_clauses and the else_clause on top of s.
ReduceIf(s) ==
  LET last == IF Top(s).sym = "else_clause" THEN <<Top(s).tree>> ELSE <<>>
      chain == Pop(s, Len(last))
      list == Clauses(chain, "else_if_clause")
      first == Pop(chain, Len(list))
  IN  Push(Pop(first, 1), "expression_", "",
           primary_expression_(
             Node("if",
                  <<Top(first).tree>>
                  \o optional_with_placeholder("else_if_clause_list", list)
                  \o optional_with_placeholder("else_clause_optional",
                                               last))))

DynamicPrecedence_of_no_rule(n) == 0

\* try: the try_clause, the catches and the finally_clause on top of s.
ReduceTry(s) ==
  LET last == IF Top(s).sym = "finally_clause"
              THEN <<finally_clause(Top(s).tree.kids)>> ELSE <<>>
      chain == Pop(s, Len(last))
      list == Clauses(chain, "catch")
      first == Pop(chain, Len(list))
  IN  Push(Pop(first, 1), "expression_", "",
           primary_expression_(
             Node("try",
                  <<try_clause(Top(first).tree.kids)>>
                  \o optional_with_placeholder(
                       "catch_list",
                       [i \in DOMAIN list |-> catch(list[i].kids)])
                  \o optional_with_placeholder("finally_clause_optional",
                                               last))))

RECURSIVE DynamicPrecedence(_)
\* The dynamic precedence of a tree: the sum over its nodes.
DynamicPrecedence(n) ==
  LET Sum[i \in 0..Len(n.kids)] ==
        IF i = 0 THEN 0 ELSE Sum[i - 1] + DynamicPrecedence(n.kids[i])
  IN  (IF n.kind = "else_if_clause" THEN 1 ELSE 0) + Sum[Len(n.kids)]

\* The tokens that can begin an expression, and a type projection.
FirstOfExpression ==
  simple_identifier \cup _literal_constant \cup _prefix_unary_operator
  \cup {"(", "{", "\"", "\"\"\"", "if", "try"}

FirstOfTypeProjection == simple_identifier \cup {"(", "*", "in", "out"}

(***************************************************************************)
(* One stack version looks at the lookahead t: the versions that take its  *)
(* place.  A version that may shift t is marked ready; every reduction     *)
(* gives a version that looks at t again.  A version with no action is     *)
(* dropped.                                                                *)
(***************************************************************************)
Successors(s, t) ==
  LET top == Top(s)
      under == Under(s)
      done == t = "end" /\ \A i \in DOMAIN s : s[i].sym \in DOMAIN program_parts
      ready == IF done \/ ShiftResults(s, t) # {}
               THEN {[stack |-> s, ready |-> TRUE]} ELSE {}
      again(s2) == {[stack |-> s2, ready |-> FALSE]}
  IN  IF top.sym = "expression_" /\ under.sym \in {"if_head", "else"}
         /\ t \in _semi \cup {"else", "end"}
      THEN again(Push(Pop(s, 1), "control_structure_body", "",
                      control_structure_body(
                        alias(statement_(top.tree), "statement"))))
      ELSE IF top.sym = "control_structure_body" /\ under.sym = "if_head"
      THEN UNION {again(s2) : s2 \in ReduceClause(s)}
      ELSE IF top.sym = "control_structure_body" /\ under.sym = "else"
      THEN again(else_clause(s))
      ELSE IF top.sym \in {"if_clause", "else_if_clause"}
      THEN \* [$.if]: before 'else' the if expression may end or go on
           IF t = "else"
           THEN (IF {"if"} \in conflicts THEN again(ReduceIf(s)) ELSE {})
                \cup ready
           ELSE again(ReduceIf(s))
      ELSE IF top.sym = "else_clause"
      THEN again(ReduceIf(s))
      ELSE IF top.sym \in {"try_clause", "catch"}
      THEN IF t \in {"catch", "finally"} THEN ready
           ELSE again(ReduceTry(s))
      ELSE IF top.sym = "finally_clause"
      THEN again(ReduceTry(s))
      ELSE IF top.sym \in {"function_value_parameters_", "function type"}
              /\ t \in _semi \cup {"end"}
      THEN again(Push(Pop(s, 1), "declaration_", "", function(top.tree.kids)))
      ELSE IF top.sym = "expression_" /\ under.sym \in {"binop", "prefixop"}
      THEN LET r == Resolve(IF under.sym = "binop" THEN under.prod
                            ELSE "prefix_expression", t)
           IN  (IF r \in {"reduce", "both"}
                THEN again(ReduceExpression(s)) ELSE {})
               \cup (IF r \in {"shift", "both"} THEN ready ELSE {})
      ELSE IF top.sym = "_type" /\ under.sym = "typeop"
      THEN again(ReduceExpression(s))
      ELSE IF top.sym = "type_identifier"
      THEN \* _simple_user_type is right-associative: '<' is shifted
           IF t = "<" THEN ready
           ELSE again(Push(Pop(s, 1), "_type", "", user_type(<<top.tree>>)))
      ELSE IF top.sym = "<" /\ under.sym = "expression_"
      THEN \* [$.type_arguments, $._comparison_operator]
           (IF t \in FirstOfExpression
            THEN again(Push(Pop(s, 1), "binop", "comparison_expression",
                            top.tree))
            ELSE {})
           \cup (IF t \in FirstOfTypeProjection THEN ready ELSE {})
      ELSE IF t \in _semi \cup {"end"} /\ top.sym = "expression_"
              /\ under.sym = "assignop"
      THEN again(ReduceAssignment(s))
      ELSE IF t \in _semi \cup {"end"} /\ top.sym = "expression_"
              /\ AtStatementStart(Pop(s, 1))
      THEN again(Push(Pop(s, 1), "statement_", "", statement_(top.tree)))
      ELSE IF t \in _semi \cup {"end"} /\ top.sym = "declaration_"
      THEN again(Push(Pop(s, 1), "statement_", "",
                      statement_(Node("declaration_", <<top.tree>>))))
      ELSE IF t \in _semi \cup {"end"}
              /\ (top.sym = "variable"
                  \/ (top.sym = "expression_" /\ under.sym = "="))
      THEN again(ReduceProperty(s))
      ELSE IF t \in _semi \cup {"end"} /\ top.sym = "class_name"
      THEN again(ReduceClass(s))
      ELSE ready

(***************************************************************************)
(* The lexical grammar.  A token rule is a regular expression built with   *)
(* the grammar's combinators; a text is a sequence of characters.          *)
(***************************************************************************)
chars(set) == [op |-> "chars", set |-> set, rules |-> <<>>]

seq(rules) == [op |-> "seq", set |-> {}, rules |-> rules]

choice(rules) == [op |-> "choice", set |-> {}, rules |-> rules]

optional(rule) == [op |-> "optional", set |-> {}, rules |-> <<rule>>]

repeat(rule) == [op |-> "repeat", set |-> {}, rules |-> <<rule>>]

\* the quantifier + of a regular expression
repeat1(rule) == seq(<<rule, repeat(rule)>>)

token(rule) == rule

sep1(rule, separator) == seq(<<rule, repeat(seq(<<separator, rule>>))>>)

DecDigit == {"0", "1", "2", "3", "4", "5", "6", "7", "8", "9"}

HexDigit ==
  DecDigit \cup {"a", "b", "c", "d", "e", "f", "A", "B", "C", "D", "E", "F"}

Letter ==
  {"a", "b", "c", "d", "e", "f", "g", "h", "i", "j", "k", "l", "m", "n", "o",
   "p", "q", "r", "s", "t", "u", "v", "w", "x", "y", "z",
   "A", "B", "C", "D", "E", "F", "G", "H", "I", "J", "K", "L", "M", "N", "O",
   "P", "Q", "R", "S", "T", "U", "V", "W", "X", "Y", "Z"}

DEC_DIGITS_trailing_separator ==
  token(seq(<<sep1(repeat1(chars(DecDigit)), repeat1(chars({"_"}))),
              repeat(chars({"_"}))>>))

DEC_DIGITS == token(sep1(repeat1(chars(DecDigit)), repeat1(chars({"_"}))))

HEX_DIGITS == token(sep1(repeat1(chars(HexDigit)), repeat1(chars({"_"}))))

BIN_DIGITS == token(sep1(chars({"0", "1"}), repeat1(chars({"_"}))))

REAL_EXPONENT ==
  token(seq(<<chars({"e", "E"}), optional(chars({"+", "-"})), DEC_DIGITS>>))

real_literal_signed ==
  token(seq(<<optional(chars({"+", "-"})),
              choice(<<seq(<<DEC_DIGITS, REAL_EXPONENT,
                             optional(chars({"f", "F"}))>>),
                       seq(<<optional(DEC_DIGITS), chars({"."}), DEC_DIGITS,
                             optional(REAL_EXPONENT),
                             optional(chars({"f", "F"}))>>),
                       seq(<<DEC_DIGITS, chars({"f", "F"})>>)>>)>>))

real_literal ==
  token(choice(<<
    seq(<<choice(<<seq(<<DEC_DIGITS, REAL_EXPONENT>>),
                   seq(<<optional(DEC_DIGITS), chars({"."}), DEC_DIGITS,
                         optional(REAL_EXPONENT)>>)>>),
          optional(chars({"f", "F"}))>>),
    seq(<<DEC_DIGITS, chars({"f", "F"})>>)>>))

integer_literal ==
  token(seq(<<optional(chars(DecDigit \ {"0"})), DEC_DIGITS>>))

hex_literal == token(seq(<<chars({"0"}), chars({"x", "X"}), HEX_DIGITS>>))

bin_literal == token(seq(<<chars({"0"}), chars({"b", "B"}), BIN_DIGITS>>))

_alpha_identifier ==
  seq(<<chars(Letter \cup {"_"}),
        repeat(chars(Letter \cup DecDigit \cup {"_"}))>>)

\* The characters of the modelled texts.
AnyChar ==
  Letter \cup DecDigit
  \cup {"_", ".", "-", "+", "#", " ", "\n", "\"", "$", "\\", "{", "}", "(", ")",
        "!", "'", "/", "*"}

\* a negated character class
except(set) == chars(AnyChar \ set)

_uni_character_literal_digits ==
  seq(<<chars(HexDigit), chars(HexDigit), chars(HexDigit), chars(HexDigit)>>)

_escaped_identifier ==
  seq(<<chars({"\\"}), chars({"t", "b", "r", "n", "'", "\"", "\\", "$"})>>)

_line_str_text == repeat1(except({"\\", "\"", "$"}))

_multi_line_str_text == repeat1(except({"\"", "$"}))

\* an anonymous token: the characters of its text
literal(string) == seq([i \in DOMAIN string |-> chars({string[i]})])

comment ==
  token(choice(<<seq(<<literal(<<"/", "/">>), repeat(except({"\n"}))>>),
                 seq(<<literal(<<"/", "*">>),
                       repeat(except({"*"})),
                       repeat1(chars({"*"})),
                       repeat(seq(<<except({"/", "*"}),
                                    repeat(except({"*"})),
                                    repeat1(chars({"*"}))>>)),
                       literal(<<"/">>)>>)>>))

TokenRule(kind, rule) == [kind |-> kind, rule |-> rule]

\* The named tokens, and the anonymous tokens the modelled texts can hold.
Lexicon ==
  {TokenRule("real_literal", real_literal),
   TokenRule("integer_literal", integer_literal),
   TokenRule("hex_literal", hex_literal),
   TokenRule("bin_literal", bin_literal),
   TokenRule("_alpha_identifier", _alpha_identifier),
   TokenRule(".", literal(<<".">>)),
   TokenRule("..", literal(<<".", ".">>)),
   TokenRule("-", literal(<<"-">>)),
   TokenRule("--", literal(<<"-", "-">>)),
   TokenRule("+", literal(<<"+">>)),
   TokenRule("++", literal(<<"+", "+">>)),
   TokenRule("{", literal(<<"{">>)),
   TokenRule("}", literal(<<"}">>)),
   TokenRule("(", literal(<<"(">>)),
   TokenRule(")", literal(<<")">>)),
   TokenRule("\"", literal(<<"\"">>)),
   TokenRule("\"\"\"", literal(<<"\"", "\"", "\"">>)),
   TokenRule("comment", comment)}

\* The tokens of the content of a line string literal; a comment is one of
\* the extras, which are valid everywhere.
LineStringLexicon ==
  {TokenRule("\"", literal(<<"\"">>)),
   TokenRule("comment", comment),
   TokenRule("_line_str_text", _line_str_text),
   TokenRule("_escaped_identifier", _escaped_identifier),
   TokenRule("\\u", literal(<<"\\", "u">>)),
   TokenRule("${", literal(<<"$", "{">>)),
   TokenRule("$", literal(<<"$">>))}

\* The tokens of the content of a multi-line string literal.
MultiLineStringLexicon ==
  {TokenRule("\"\"\"", literal(<<"\"", "\"", "\"">>)),
   TokenRule("comment", comment),
   TokenRule("\"", literal(<<"\"">>)),
   TokenRule("_multi_line_str_text", _multi_line_str_text),
   TokenRule("${", literal(<<"$", "{">>)),
   TokenRule("$", literal(<<"$">>))}

RECURSIVE Modes(_)
\* The constructs that are open after the tokens: the lexer looks for the
\* tokens that the innermost one can continue with.
Modes(toks) ==
  IF toks = <<>> THEN <<"code">>
  ELSE LET m == Modes(SubSeq(toks, 1, Len(toks) - 1))
           t == toks[Len(toks)]
           top == m[Len(m)]
           close == SubSeq(m, 1, Len(m) - 1)
       IN  CASE top = "code" /\ t = "\"" -> Append(m, "line")
             [] top = "code" /\ t = "\"\"\"" -> Append(m, "multi")
             [] top = "code" /\ t = "{" -> Append(m, "code")
             [] top = "code" /\ t = "}" /\ Len(m) > 1 -> close
             [] top = "line" /\ t = "\"" -> close
             [] top = "multi" /\ t = "\"\"\"" -> close
             [] top \in {"line", "multi"} /\ t = "${" -> Append(m, "code")
             [] top \in {"line", "multi"} /\ t = "$" -> Append(m, "identifier")
             [] top = "line" /\ t = "\\u" -> Append(m, "digits")
             [] top \in {"identifier", "digits"} -> close
             [] OTHER -> m

\* The token rules the lexer tries after the tokens.
ValidTokens(toks) ==
  LET m == Modes(toks)
      top == m[Len(m)]
  IN  CASE top = "line" -> LineStringLexicon
        [] top = "multi" -> MultiLineStringLexicon
        [] top = "identifier" ->
             {TokenRule("_alpha_identifier", _alpha_identifier),
              TokenRule("comment", comment)}
        [] top = "digits" ->
             {TokenRule("[0-9a-fA-F]{4}", _uni_character_literal_digits),
              TokenRule("comment", comment)}
        [] OTHER -> Lexicon

\* word: the keywords are cut out of the identifier token.
word(lexeme) ==
  CASE lexeme = <<"t", "r", "u", "e">> -> "true"
    [] lexeme = <<"f", "a", "l", "s", "e">> -> "false"
    [] lexeme = <<"d", "a", "t", "a">> -> "data"
    [] lexeme = <<"v", "a", "l">> -> "val"
    [] lexeme = <<"c", "l", "a", "s", "s">> -> "class"
    [] OTHER -> "_alpha_identifier"

RECURSIVE Match(_, _, _), MatchSeq(_, _, _), MatchRepeat(_, _, _)
\* The positions of the text s at which a match of the rule can end when it
\* starts at one of the positions I (a position counts the characters
\* before it).
Match(rule, s, I) ==
  CASE rule.op = "chars" ->
         {i + 1 : i \in {j \in I : j < Len(s) /\ s[j + 1] \in rule.set}}
    [] rule.op = "seq" -> MatchSeq(rule.rules, s, I)
    [] rule.op = "choice" ->
         UNION {Match(rule.rules[k], s, I) : k \in DOMAIN rule.rules}
    [] rule.op = "optional" -> I \cup Match(rule.rules[1], s, I)
    [] rule.op = "repeat" -> MatchRepeat(rule.rules[1], s, I)

MatchSeq(rules, s, I) ==
  IF rules = <<>> \/ I = {} THEN I
  ELSE MatchSeq(Tail(rules), s, Match(Head(rules), s, I))

MatchRepeat(rule, s, I) ==
  LET J == I \cup Match(rule, s, I)
  IN  IF J = I THEN I ELSE MatchRepeat(rule, s, J)

\* The rule matches the whole of s.
Matches(rule, s) == Len(s) \in Match(rule, s, {0})

Max(S) == CHOOSE m \in S : \A n \in S : n <= m

\* The end of the longest match of the rule at position from, or from when
\* there is none.
Longest(rule, s, from) == Max(Match(rule, s, {from}) \cup {from})

(***************************************************************************)
(* Token inputs.                                                           *)
(***************************************************************************)
BinaryOperatorTokens ==
  _as_operator \cup _multiplicative_operator \cup _additive_operator
  \cup {"..", "_alpha_identifier", "?:"} \cup _in_operator \cup _is_operator
  \cup _comparison_operator \cup _equality_operator \cup {"&&", "||"}

RECURSIVE Chains(_)
\* operand (operator operand)^n
Chains(n) ==
  IF n = 0 THEN {<<"_alpha_identifier">>}
  ELSE {c \o <<o, "_alpha_identifier">> :
          c \in Chains(n - 1), o \in BinaryOperatorTokens}

ChainInputs == UNION {Chains(n) : n \in 0..MaxOps}

PrefixInputs ==
  {<<p, "_alpha_identifier", o, "_alpha_identifier">> :
     p \in _prefix_unary_operator,
     o \in BinaryOperatorTokens \cup {".", "("}}
  \cup {<<p, a>> : p \in _prefix_unary_operator,
                   a \in {"_alpha_identifier", "integer_literal",
                          "real_literal"}}

GenericsInputs ==
  {<<"_alpha_identifier", "<", b, ">">> \o c :
     b \in {"_alpha_identifier", "integer_literal"},
     c \in {<<"_alpha_identifier">>, <<"integer_literal">>, <<"{", "}">>,
            <<"(", "_alpha_identifier", ")">>, <<"(", ")">>,
            <<"-", "_alpha_identifier">>}}

SoftKeywordInputs ==
  UNION {{<<"val", k, "=", "integer_literal">>, <<"val", k>>,
          <<k, "class", "_alpha_identifier">>, <<"class", k>>, <<k>>,
          <<"_alpha_identifier", k, "_alpha_identifier">>,
          <<"_alpha_identifier", ".", k>>, <<k, "+", "_alpha_identifier">>,
          <<k, "val", "_alpha_identifier">>,
          <<"_alpha_identifier", "as", k>>,
          <<"data", k, "class", "_alpha_identifier">>} :
         k \in SoftKeywords}

PrimaryInputs ==
  {<<"{", "}">>, <<"(", "_alpha_identifier", ")">>,
   <<"_alpha_identifier", "(", ")">>, <<"_alpha_identifier", "{", "}">>,
   <<"_alpha_identifier", "++">>, <<"get">>, <<"data", "get">>}

StatementInputs ==
  ChainInputs \cup PrefixInputs \cup GenericsInputs \cup SoftKeywordInputs
  \cup PrimaryInputs

RECURSIVE LiteralPrograms(_)
\* n literal statements, each ended by a terminator
LiteralPrograms(n) ==
  IF n = 0 THEN {<<>>}
  ELSE {p \o <<l, e>> :
          p \in LiteralPrograms(n - 1),
          l \in {"integer_literal", "true", "false"}, e \in _semi}

MaxParts == 3

\* One part of a program of each kind.
Parts ==
  {<<"#!", "[^\\r\\n]*">>,
   <<"@", "file", ":", "_alpha_identifier", "_automatic_semicolon">>,
   <<"package", "_alpha_identifier", "_automatic_semicolon">>,
   <<"import", "_alpha_identifier", "_automatic_semicolon">>,
   <<"integer_literal", "_automatic_semicolon">>}

RECURSIVE PartPrograms(_)
\* n parts in any order
PartPrograms(n) ==
  IF n = 0 THEN {<<>>}
  ELSE {p \o part : p \in PartPrograms(n - 1), part \in Parts}

\* The conditions and the bodies of the if expressions.
Conditions == {<<"_alpha_identifier">>, <<"true">>}

SimpleBodies ==
  {<<"_alpha_identifier">>, <<"integer_literal">>, <<";">>, <<"{", "}">>}

Bodies ==
  SimpleBodies \cup {<<"if", "(", "_alpha_identifier", ")", "_alpha_identifier">>}

IfClause(c, s) == <<"if", "(">> \o c \o <<")">> \o s

\* if (c1) s1 else if (c2) s2 else s3
IfChain(c1, s1, c2, s2, s3) ==
  IfClause(c1, s1) \o <<"else">> \o IfClause(c2, s2) \o <<"else">> \o s3

IfInputs ==
  {IfClause(c, s) : c \in Conditions, s \in Bodies}
  \cup {IfClause(c, s1) \o <<"else">> \o s2 :
          c \in Conditions, s1 \in Bodies, s2 \in Bodies}
  \cup {IfChain(c1, s1, c2, s2, s3) :
          c1 \in Conditions, s1 \in Bodies,
          c2 \in Conditions, s2 \in Bodies, s3 \in Bodies}

Catch ==
  <<"catch", "(", "_alpha_identifier", ":", "_alpha_identifier", ")",
    "{", "}">>

TryInputs ==
  {<<"try", "{", "}">> \o c \o f :
     c \in {<<>>, Catch, Catch \o Catch}, f \in {<<>>, <<"finally", "{", "}">>}}

FunctionInputs ==
  {<<"fun", "_alpha_identifier", "(">> \o p \o <<")">> \o r :
     p \in {<<>>, <<"_alpha_identifier", ":", "_alpha_identifier">>},
     r \in {<<>>, <<":", "_alpha_identifier">>}}

AssignmentInputs ==
  {<<"_alpha_identifier", o, "_alpha_identifier">> :
     o \in {"="} \cup _assignment_and_operator}
  \cup {<<"_alpha_identifier", "=", "-", "_alpha_identifier", "+",
          "_alpha_identifier">>,
        <<"_alpha_identifier", "=", "_alpha_identifier", "=",
          "_alpha_identifier">>}

TokenInputs ==
  {i \o <<e>> :
     i \in StatementInputs \cup IfInputs \cup TryInputs \cup FunctionInputs
           \cup AssignmentInputs,
     e \in {"_automatic_semicolon"}}
  \cup UNION {LiteralPrograms(n) : n \in 0..MaxStatements}
  \cup UNION {PartPrograms(n) : n \in 0..MaxParts}

(***************************************************************************)
(* The parser.                                                             *)
(***************************************************************************)
Lookahead == IF pos <= Len(tokens) THEN tokens[pos] ELSE "end"

Start == {[stack |-> <<>>, ready |-> FALSE]}

Init ==
  /\ text = <<>>
  /\ offset = 1
  /\ tokens \in TokenInputs
  /\ lexemes = <<>>
  /\ pos = 1
  /\ versions = Start
  /\ pc = "parse"

\* The versions process the lookahead: each that is not ready reduces, or
\* is ready to shift.
Advance ==
  /\ pc = "parse"
  /\ \E v \in versions : ~v.ready
  /\ versions' = UNION {IF v.ready THEN {v}
                        ELSE Successors(v.stack, Lookahead) : v \in versions}
  /\ UNCHANGED <<text, offset, tokens, lexemes, pos, pc>>

\* Every version has processed the lookahead: each shifts it.
Shift ==
  /\ pc = "parse"
  /\ versions # {}
  /\ \A v \in versions : v.ready
  /\ pos <= Len(tokens)
  /\ versions' = {[stack |-> s, ready |-> FALSE] :
                    s \in UNION {ShiftResults(v.stack, Lookahead) :
                                   v \in versions}}
  /\ pos' = pos + 1
  /\ UNCHANGED <<text, offset, tokens, lexemes, pc>>

\* The dynamic precedence of a version: the sum over its trees.
DynamicPrecedenceOf(v) ==
  DynamicPrecedence(Node("", [i \in DOMAIN v.stack |-> v.stack[i].tree]))

\* Of several readings, those with the highest dynamic precedence.
Select(vs) ==
  {v \in vs : \A w \in vs : DynamicPrecedenceOf(w) <= DynamicPrecedenceOf(v)}

\* The input is used up and the surviving versions hold whole programs:
\* the readings with the highest dynamic precedence are the result.
Accept ==
  /\ pc = "parse"
  /\ versions # {}
  /\ \A v \in versions : v.ready
  /\ pos > Len(tokens)
  /\ versions' = Select(versions)
  /\ pc' = "accepted"
  /\ UNCHANGED <<text, offset, tokens, lexemes, pos>>

\* No version could take the lookahead: a syntax error.
Reject ==
  /\ pc = "parse"
  /\ versions = {}
  /\ pc' = "error"
  /\ UNCHANGED <<text, offset, tokens, lexemes, pos, versions>>

Next == Advance \/ Shift \/ Accept \/ Reject

RECURSIVE Settle(_, _)
\* The versions after every one of them has processed the lookahead t.
Settle(vs, t) ==
  IF \A v \in vs : v.ready THEN vs
  ELSE Settle(UNION {IF v.ready THEN {v} ELSE Successors(v.stack, t) :
                       v \in vs}, t)

RECURSIVE Parse(_, _, _)
\* The versions that are left when the tokens from the i-th on are parsed:
\* none when the tokens are not accepted.
Parse(vs, toks, i) ==
  LET t == IF i <= Len(toks) THEN toks[i] ELSE "end"
      ready == Settle(vs, t)
  IN  IF i > Len(toks) THEN Select(ready)
      ELSE IF ready = {} THEN {}
      ELSE Parse({[stack |-> s, ready |-> FALSE] :
                    s \in UNION {ShiftResults(v.stack, t) : v \in ready}},
                 toks, i + 1)

\* The trees of a set of versions.
TreesOf(vs) == {program([i \in DOMAIN v.stack |-> v.stack[i].tree]) : v \in vs}

Spec == Init /\ [][Next]_vars

\* The trees of the accepted readings of the input.
Trees == {program([i \in DOMAIN v.stack |-> v.stack[i].tree]) : v \in versions}

(***************************************************************************)
(* Lexing a text and parsing its tokens.                                   *)
(***************************************************************************)
MaxLen == 3

Alphabet == {"0", "1", "_", ".", "e", "f", "-", "b"}

\* The integer literals of test/corpus/literals.txt, one on a line.
CorpusIntegers ==
  <<"0", "\n", "8", "\n", "2", "3", "\n", "9", "8", "4", "7">>

\* The boolean literals of test/corpus/literals.txt.
CorpusBooleans == <<"t", "r", "u", "e", "\n", "f", "a", "l", "s", "e">>

\* The real literals of test/corpus/literals.txt.
CorpusReals ==
  <<"0", ".", "0", "\n", "-", "2", "3", ".", "4", "3", "4", "\n",
    "1", "e", "-", "1", "0", "\n", "4", ".", "3", "f", "\n",
    "+", "5", "3", ".", "9", "e", "-", "3", "F">>

\* The corpus, its literals one by one, and hex and binary literals.
CorpusTexts ==
  {CorpusIntegers, CorpusBooleans, CorpusReals,
   <<"8">>,
   <<"2", "3">>,
   <<"9", "8", "4", "7">>,
   <<"0", ".", "0">>,
   <<"-", "2", "3", ".", "4", "3", "4">>,
   <<"1", "e", "-", "1", "0">>,
   <<"4", ".", "3", "f">>,
   <<"+", "5", "3", ".", "9", "e", "-", "3", "F">>,
   <<"0", "b", "1", "0", "1">>,
   <<"0", "b", "1", "0", "1", "0", "_", "0", "0", "0", "1">>,
   <<"0", "B", "1", "_", "0">>,
   <<"0", "b", "1", "_">>,
   <<"0", "x", "1", "f">>,
   <<"0", "X", "_", "1">>,
   <<"0", "x", "A", "_", "b">>,
   <<"0", "x", "1", "_", "_", "f">>,
   <<"0", "x">>,
   <<"0", "x", "g">>,
   <<"9", "_", "8", "4", "7">>,
   <<"1", "_", "_", "1">>,
   <<"1", "#">>,
   <<"a", " ", "+", " ", "b">>,
   <<"a", "+", "b">>}

\* The line string literal of test/corpus/literals.txt.
CorpusLineString ==
  <<"\"", "H", "e", "l", "l", "o", " ", "W", "o", "r", "l", "d", "!", "\"">>

\* The multi-line string literal of test/corpus/literals.txt.
CorpusMultiLineString ==
  <<"\"", "\"", "\"", "\n", "T", "h", "i", "s", " ", "i", "s", " ", "a",
    " ", "\"", "m", "u", "l", "t", "i", "l", "i", "n", "e", "\"", "\n",
    "s", "t", "r", "i", "n", "g", ".", "\n", "\"", "\"", "\"">>

\* The interpolations of test/corpus/literals.txt.
CorpusInterpolatedIdentifier ==
  <<"\"", "S", "a", "m", "p", "l", "e", " ", "$", "s", "t", "r", "i", "n",
    "g", ".", "i", "n", "t", "e", "r", "p", "o", "l", "a", "t", "i", "o",
    "n", " ", "l", "i", "t", "e", "r", "a", "l", "\"">>

CorpusInterpolatedExpression ==
  <<"\"", "S", "a", "m", "p", "l", "e", " ", "$", "{", "\"", "s", "t", "r",
    "i", "n", "g", ".", "i", "n", "t", "e", "r", "p", "o", "l", "a", "t",
    "i", "o", "n", "\"", "}", " ", "l", "i", "t", "e", "r", "a", "l", "\"">>

CorpusMultiLineInterpolation ==
  <<"\"", "\"", "\"", "\n", "M", "u", "l", "t", "i", "l", "i", "n", "e",
    "\n", "$", "{", "\"", "\"", "\"", "s", "t", "r", "i", "n", "g", " ",
    "i", "n", "t", "e", "r", "p", "o", "l", "a", "t", "i", "o", "n", "\"",
    "\"", "\"", "}", " ", "$", "l", "i", "t", "e", "r", "a", "l", "\n",
    "\"", "\"", "\"">>

\* The unicode escapes of test/corpus/literals.txt.
CorpusUnicodeLeft ==
  <<"\"", "\\", "u", "2", "1", "4", "E", "\\", "u", "A", "7", "B", "5",
    "\\", "u", "2", "C", "E", "F", "\"">>

CorpusUnicodeRight ==
  <<"\"", "\\", "u", "2", "1", "3", "2", "\\", "u", "A", "7", "B", "4",
    "\\", "u", "2", "C", "E", "F", "\"", ".", "l", "o", "w", "e", "r", "c",
    "a", "s", "e", "(", ")">>

\* String literals with nested and malformed parts.
MoreStrings ==
  {<<"\"", "$", "{", "a", "}", "\"">>,
   <<"\"", "$", "{", "\"", "$", "{", "\"", "a", "\"", "}", "\"", "}", "\"">>,
   <<"\"", "$", "{", "\"", "a", "\"", " ", "+", " ", "\"", "b", "\"", "}",
     "\"">>,
   <<"\"", "$", "a", "(", "b", ")", "\"">>,
   <<"\"", "$", "a", ".", "b", "\"">>,
   <<"\"", "\\", "u", "0", "0", "\"">>,
   <<"\"", "\\", "u", "0", "0", "4", "\"">>,
   <<"\"", "\\", "u", "0", "0", "4", "1", "\"">>,
   <<"\"", "\\", "t", "\"">>,
   <<"\"", "\\", "x", "\"">>,
   <<"\"", "$", "{", "\"", "\"", "\"", "a", "\"", "\"", "\"", "}", "\"">>,
   <<"\"", "\"", "\"", "$", "{", "\"", "a", "\"", "}", "\"", "\"", "\"">>,
   <<"\"", "\"", "\"", "$", "{", "\"", "\"", "\"", "$", "{", "\"", "a",
     "\"", "}", "\"", "\"", "\"", "}", "\"", "\"", "\"">>,
   <<"\"", "$", " ", "a", "\"">>,
   <<"\"", "$", "d", "a", "t", "a", "\"">>,
   <<"\"", "$", "v", "a", "l", "\"">>,
   <<"\"", "a", "\"", " ", "+", " ", "\"", "b", "\"">>,
   <<"\"", "$", "{", "a", "\"">>,
   <<"\"", "\"", "\"", "a", "\\", "\"", "b", "\"", "\"", "\"">>,
   <<"\"", "\"", "\"", "\\", "\"", "\"", "\"">>,
   <<"\"", "\"", "\"", "a", "\"", "\"", "\"", "\"">>,
   <<"\"", "\"", "\"", "$", "a", "/", "/", "b", "\"", "\n", "\"", "\"",
     "\"">>,
   <<"\"", "a", "/", "/", "b", "\"">>,
   <<"\"", "$", "/", "/", "x", "\n", "a", "\"">>,
   <<"\"", "/", "*", "\"", "*", "/", "\"">>,
   <<"\"", "\"", "\"", "a", "/", "*", "\"", "\"", "\"", "*", "/", "\"",
     "\"", "\"">>,
   <<"\"", "a", "\"", " ", "/", "/", "b">>,
   <<"\"", "$", "{", "a", " ", "/", "/", "b", "\n", "}", "\"">>}

StringAlphabet == {"a", "\\", "$", "\"", "{", "}", "/"}

\* The string literals with a content of at most MaxLen characters.
StringTexts ==
  {q \o body \o q :
     q \in {<<"\"">>, <<"\"", "\"", "\"">>},
     body \in UNION {[1..n -> StringAlphabet] : n \in 0..MaxLen}}

CorpusStrings ==
  {CorpusLineString, CorpusMultiLineString,
   CorpusLineString \o <<"\n">> \o CorpusMultiLineString,
   CorpusInterpolatedIdentifier, CorpusInterpolatedExpression,
   CorpusMultiLineInterpolation,
   CorpusInterpolatedIdentifier \o <<"\n">> \o CorpusInterpolatedExpression
     \o <<"\n">> \o CorpusMultiLineInterpolation,
   CorpusUnicodeLeft, CorpusUnicodeRight}

Texts ==
  UNION {[1..n -> Alphabet] : n \in 0..MaxLen} \cup CorpusTexts
  \cup StringTexts \cup CorpusStrings \cup MoreStrings

InitLex ==
  /\ text \in Texts
  /\ offset = 1
  /\ tokens = <<>>
  /\ lexemes = <<>>
  /\ pos = 1
  /\ versions = Start
  /\ pc = "lex"

\* The text of the i-th token.
Lexeme(i) == SubSeq(text, lexemes[i].from, lexemes[i].to)

InCode == ValidTokens(tokens) = Lexicon

InString == ValidTokens(tokens) \in {LineStringLexicon, MultiLineStringLexicon}

\* Keyword extraction: a word is the keyword it spells when that keyword is
\* valid where the word stands; after the '$' of an interpolation only the
\* keywords that are simple identifiers are.
Keyword(kind, lexeme) ==
  IF kind = "_alpha_identifier"
     /\ (InCode \/ word(lexeme) \in simple_identifier)
  THEN word(lexeme)
  ELSE kind

AtLineBreak == offset <= Len(text) /\ text[offset] = "\n" /\ InCode

\* extras: white space between the tokens
AtWhiteSpace ==
  /\ offset <= Len(text)
  /\ \/ text[offset] = " " /\ InCode
     \/ /\ text[offset] \in {" ", "\n"}
        /\ ~InCode
        /\ \E r \in ValidTokens(tokens) :
             r.kind \in {"_alpha_identifier", "[0-9a-fA-F]{4}"}

\* The end of the longest token at the offset.
TokenEnd ==
  Max({Longest(r.rule, text, offset - 1) : r \in ValidTokens(tokens)})

\* The next token is the longest match of a token rule at the offset.
LexToken ==
  /\ pc = "lex"
  /\ offset <= Len(text)
  /\ ~AtLineBreak /\ ~AtWhiteSpace
  /\ TokenEnd >= offset
  /\ \E r \in ValidTokens(tokens) :
       /\ Longest(r.rule, text, offset - 1) = TokenEnd
       /\ IF r.kind = "comment" /\ ~InString
          THEN UNCHANGED <<tokens, lexemes>>
          ELSE /\ tokens' = Append(tokens,
                                   Keyword(r.kind,
                                           SubSeq(text, offset, TokenEnd)))
               /\ lexemes' = Append(lexemes,
                                    [from |-> offset, to |-> TokenEnd])
  /\ offset' = TokenEnd + 1
  /\ UNCHANGED <<text, pos, versions, pc>>

\* No token rule matches at the offset.
LexError ==
  /\ pc = "lex"
  /\ offset <= Len(text)
  /\ ~AtLineBreak /\ ~AtWhiteSpace
  /\ TokenEnd < offset
  /\ pc' = "error"
  /\ UNCHANGED <<text, offset, tokens, lexemes, pos, versions>>

\* White space between tokens is skipped and gives no token.
extras ==
  /\ pc = "lex"
  /\ AtWhiteSpace
  /\ offset' = offset + 1
  /\ UNCHANGED <<text, tokens, lexemes, pos, versions, pc>>

\* The tokens that can end a statement.
EndsStatement(t) ==
  t \in _literal_constant \cup simple_identifier
       \cup {")", "}", "++", "--", "\"", "\"\"\""}

\* The external scanner: at a line break and at the end of the text, after
\* a token that can end a statement, it supplies the automatic terminator.
\* At the end of the text the parser starts.
_automatic_semicolon ==
  /\ pc = "lex"
  /\ AtLineBreak \/ offset > Len(text)
  /\ LET ends == tokens # <<>> /\ EndsStatement(tokens[Len(tokens)])
     IN  /\ tokens' = IF ends THEN Append(tokens, "_automatic_semicolon")
                      ELSE tokens
         /\ lexemes' = IF ends
                       THEN Append(lexemes, [from |-> offset, to |-> offset - 1])
                       ELSE lexemes
  /\ offset' = IF AtLineBreak THEN offset + 1 ELSE offset
  /\ pc' = IF AtLineBreak THEN "lex" ELSE "parse"
  /\ UNCHANGED <<text, pos, versions>>

NextLex == LexToken \/ LexError \/ extras \/ _automatic_semicolon \/ Next

LexSpec == InitLex /\ [][NextLex]_vars

(***************************************************************************)
(* Reading the trees.                                                      *)
(***************************************************************************)
RECURSIVE Nodes(_)
\* The nodes of a tree.
Nodes(n) == {n} \cup UNION {Nodes(n.kids[i]) : i \in DOMAIN n.kids}

RECURSIVE Unwrap(_)
\* The node under the expression_ and primary_expression_ nodes.
Unwrap(n) ==
  IF n.kind \in {"expression_", "primary_expression_"}
  THEN Unwrap(n.kids[1]) ELSE n

\* The statement nodes of a program, in source order.
StatementsOf(tree) ==
  SelectSeq(tree.kids,
            LAMBDA n : n.field = "statement_list" /\ n.kind # "blank")

\* The expression of the first statement of a program.
Root(tree) == Unwrap(StatementsOf(tree)[1].kids[1].kids[1])

OperatorNode(o) ==
  IF o \in simple_identifier THEN SimpleIdentifierNode(o) ELSE Leaf(o)

\* n is the binary node of the operator o.
IsOp(n, o) ==
  /\ n.kind = BinaryProduction(o)
  /\ Len(n.kids) = 3
  /\ n.kids[2] = OperatorNode(o)

\* (a o1 b) o2 c
LeftNested(tree, o1, o2) ==
  IsOp(Root(tree), o2) /\ IsOp(Unwrap(Root(tree).kids[1]), o1)

\* a o1 (b o2 c)
RightNested(tree, o1, o2) ==
  IsOp(Root(tree), o1) /\ IsOp(Unwrap(Root(tree).kids[3]), o2)

Level(o) == Production[BinaryProduction(o)].prec

Finished == pc \in {"accepted", "error"}

Id == "_alpha_identifier"

End == "_automatic_semicolon"

(***************************************************************************)
(* Operator precedence and associativity.                                  *)
(***************************************************************************)
\* C1: for binary operators o1, o2 of different precedence levels, o1 on
\* the tighter level, 'a o2 b o1 c' parses as the o2 node with right operand
\* (b o1 c) and 'a o1 b o2 c' as the o2 node with left operand (a o1 b).
C1_PrecedenceDecidesNesting ==
  \A o1, o2 \in BinaryOperatorTokens :
    Level(o1) > Level(o2) /\ Finished =>
      /\ tokens = <<Id, o2, Id, o1, Id, End>> =>
           (pc = "accepted" /\ \A tree \in Trees : RightNested(tree, o2, o1))
      /\ tokens = <<Id, o1, Id, o2, Id, End>> =>
           (pc = "accepted" /\ \A tree \in Trees : LeftNested(tree, o1, o2))

\* C2: a prefix operator binds tighter than every binary operator and
\* looser than the postfix operators: 'p a o b' parses as the o node whose
\* left operand is prefix_expression(p a), and 'p a.m' as the
\* prefix_expression of the navigation expression.
C2_PrefixBindsTighterThanBinary ==
  \A p \in _prefix_unary_operator :
    Finished =>
      /\ \A o \in BinaryOperatorTokens :
           tokens = <<p, Id, o, Id, End>> =>
             (pc = "accepted" /\ \A tree \in Trees :
               /\ IsOp(Root(tree), o)
               /\ Unwrap(Root(tree).kids[1]).kind = "prefix_expression")
      /\ tokens = <<p, Id, ".", Id, End>> =>
           (pc = "accepted" /\ \A tree \in Trees :
             /\ Root(tree).kind = "prefix_expression"
             /\ Unwrap(Root(tree).kids[2]).kind = "navigation_expression")

\* C3: every binary expression form is left-associative: for operators o1,
\* o2 of one precedence level 'a o1 b o2 c' parses as the o2 node with left
\* operand (a o1 b).
C3_BinaryFormsLeftAssociative ==
  \A o1, o2 \in BinaryOperatorTokens \ _as_operator :
    Level(o1) = Level(o2) /\ Finished
    /\ tokens = <<Id, o1, Id, o2, Id, End>> =>
      (pc = "accepted" /\ \A tree \in Trees : LeftNested(tree, o1, o2))

(***************************************************************************)
(* Generics and comparisons.                                               *)
(***************************************************************************)
\* The input is 'x < b > c ...'.
IsGenericsInput == tokens \in {g \o <<End>> : g \in GenericsInputs}

ComparisonChain(tree) ==
  /\ LeftNested(tree, "<", ">")
  /\ \A n \in Nodes(tree) : n.kind # "type_arguments"

\* C4 as stated: 'x < b > c', when the token after '>' is not the opening
\* parenthesis of a value-argument list, parses as the comparison chain
\* (x < b) > c and no parse holds a call with type_arguments.
C4_ComparisonUnlessParenthesis ==
  IsGenericsInput /\ tokens[5] # "(" /\ Finished =>
    (pc = "accepted" /\ \A tree \in Trees : ComparisonChain(tree))

\* C4: 'x < b > c', when the token after '>' begins no call suffix (neither
\* a value-argument list nor a trailing lambda), parses as the comparison
\* chain (x < b) > c and no parse holds a call with type_arguments.
C4_ComparisonUnlessCallSuffix ==
  IsGenericsInput /\ tokens[5] \notin CallSuffixStart /\ Finished =>
    (pc = "accepted" /\ \A tree \in Trees : ComparisonChain(tree))

C4_Witness ==
  /\ pc = "accepted"
  /\ tokens = <<Id, "<", Id, ">", Id, End>>
  /\ \A tree \in Trees : ComparisonChain(tree)

(***************************************************************************)
(* Soft keywords.                                                          *)
(***************************************************************************)
KeywordNodes == {"class_modifier", "platform_modifier", "getter", "setter"}

HasKind(tree, kinds) == \E n \in Nodes(tree) : n.kind \in kinds

\* The tree names k as an identifier.
Names(tree, k) ==
  \E n \in Nodes(tree) :
    /\ n.kind \in {"simple_identifier", "identifier", "type_identifier"}
    /\ n.kids = <<Leaf(k)>>

\* Statements with the identifier k where an identifier is accepted: the
\* name of a variable, of a class, of an infix function, of a member and of
\* a type, and an operand.
IdentifierPositions(k) ==
  {<<"val", k, "=", "integer_literal", End>>, <<"val", k, End>>,
   <<"class", k, End>>, <<Id, k, Id, End>>, <<Id, ".", k, End>>,
   <<k, "+", Id, End>>, <<Id, "as", k, End>>}

ListHolders == {"program", "lambda_literal", "value_arguments"}

\* C6: every node that may hold an optional or repeated list has the named
\* field of the list, bound to the elements or to a blank, also when the
\* list is empty.
C6_ListFieldAlwaysPresent ==
  pc = "accepted" =>
    \A tree \in Trees : \A n \in Nodes(tree) :
      n.kind \in ListHolders =>
        \E i \in DOMAIN n.kids : n.kids[i].field # ""

LiteralKinds ==
  {"integer_literal", "hex_literal", "bin_literal", "real_literal",
   "boolean_literal"}

\* The tokens are literals, each followed by a terminator.
IsLiteralProgram ==
  /\ tokens # <<>>
  /\ \A i \in DOMAIN tokens :
       IF i % 2 = 1 THEN tokens[i] \in _literal_constant
       ELSE tokens[i] \in _semi

\* C7: in a program of bare literal statements every literal node is a
\* direct child of the root, the literals are siblings in source order and
\* no wrapper node stands between the root and a literal.
C7_LiteralsAreChildrenOfRoot ==
  pc = "accepted" /\ IsLiteralProgram =>
    \A tree \in Trees :
      LET literals == SelectSeq(tree.kids, LAMBDA n : n.kind \in LiteralKinds)
      IN  /\ Len(literals) = Len(tokens) \div 2
          /\ \A i \in DOMAIN literals :
               literals[i] = [LiteralNode(tokens[2 * i - 1])
                                EXCEPT !.field = literals[i].field]

(***************************************************************************)
(* Literal tokens.                                                         *)
(***************************************************************************)
\* s is one or more groups of the digits, consecutive groups separated by
\* one or more underscores.
DigitGroups(s, digits) ==
  /\ s # <<>>
  /\ \A i \in DOMAIN s : s[i] \in digits \cup {"_"}
  /\ s[1] \in digits
  /\ s[Len(s)] \in digits

Lexed == pc \in {"parse", "accepted", "error"}

OneToken(kind) == <<kind, End>>

\* C8: integer_literal matches exactly the groups of decimal digits
\* separated by underscore runs, so none begins or ends with an underscore;
\* 0, 8, 23 and 9847 are each lexed as one integer_literal token.
C8_IntegerLiteralIsDigitGroups ==
  Lexed =>
    /\ Matches(integer_literal, text) <=> DigitGroups(text, DecDigit)
    /\ DigitGroups(text, DecDigit) => tokens = OneToken("integer_literal")
    /\ text = CorpusIntegers =>
         tokens = OneToken("integer_literal") \o OneToken("integer_literal")
                  \o OneToken("integer_literal")
                  \o OneToken("integer_literal")

C8_Witness ==
  /\ pc = "accepted"
  /\ text = <<"1", "_", "1">>
  /\ tokens = OneToken("integer_literal")

\* s is 0, one of the prefix letters, and digit groups.
Prefixed(s, letters, digits) ==
  /\ Len(s) >= 3
  /\ s[1] = "0"
  /\ s[2] \in letters
  /\ DigitGroups(SubSeq(s, 3, Len(s)), digits)

\* C9: hex_literal matches exactly 0x or 0X followed by groups of one or
\* more hex digits separated by underscore runs, bin_literal exactly 0b or
\* 0B followed by groups of one or more binary digits separated by
\* underscore runs; '0b101' and '0b1010_0001' are each one bin_literal.
C9_HexAndBinAreDigitGroups ==
  Lexed =>
    /\ Matches(hex_literal, text) <=> Prefixed(text, {"x", "X"}, HexDigit)
    /\ Matches(bin_literal, text) <=> Prefixed(text, {"b", "B"}, {"0", "1"})
    /\ Prefixed(text, {"b", "B"}, {"0", "1"}) =>
         tokens = OneToken("bin_literal")

Exponent(s) ==
  /\ Len(s) >= 2
  /\ s[1] \in {"e", "E"}
  /\ \/ DigitGroups(Tail(s), DecDigit)
     \/ s[2] \in {"+", "-"} /\ DigitGroups(SubSeq(s, 3, Len(s)), DecDigit)

\* digits exponent
DigitsExponent(s) ==
  \E i \in 1..Len(s) :
    /\ DigitGroups(SubSeq(s, 1, i), DecDigit)
    /\ Exponent(SubSeq(s, i + 1, Len(s)))

\* [digits] . digits [exponent]
Fraction(s) ==
  \E d \in 1..Len(s) : \E j \in d + 1..Len(s) :
    /\ s[d] = "."
    /\ d = 1 \/ DigitGroups(SubSeq(s, 1, d - 1), DecDigit)
    /\ DigitGroups(SubSeq(s, d + 1, j), DecDigit)
    /\ j = Len(s) \/ Exponent(SubSeq(s, j + 1, Len(s)))

\* The shapes of a real literal.
RealShape(s) ==
  LET suffixed == s # <<>> /\ s[Len(s)] \in {"f", "F"}
      front == SubSeq(s, 1, Len(s) - 1)
  IN  \/ DigitsExponent(s) \/ Fraction(s)
      \/ suffixed /\ (DigitsExponent(front) \/ Fraction(front)
                      \/ DigitGroups(front, DecDigit))

RealLeaf == primary_expression_(Leaf("real_literal"))

\* C10: real_literal matches exactly 'digits exponent' and
\* '[digits].digits[exponent]', each with an optional f/F suffix, and
\* 'digits f/F'; none begins with a sign, so a signed real parses as a
\* prefix_expression whose operand is the real_literal, and an unsigned one
\* is one real_literal leaf.
C10_RealLiteralShape ==
  Lexed =>
    /\ Matches(real_literal, text) <=> RealShape(text)
    /\ Matches(real_literal, text) => text[1] \notin {"+", "-"}
    /\ RealShape(text) /\ Finished =>
         /\ tokens = OneToken("real_literal")
         /\ (pc = "accepted" /\ \A tree \in Trees :
              StatementsOf(tree)[1].kids[1].kids[1]
                = Field("statement", RealLeaf))
    /\ text = CorpusReals /\ Finished =>
         /\ tokens = OneToken("real_literal") \o <<"-", "real_literal", End>>
                      \o OneToken("real_literal") \o OneToken("real_literal")
                      \o <<"+", "real_literal", End>>
         /\ (pc = "accepted" /\ \A tree \in Trees :
              /\ Len(StatementsOf(tree)) = 5
              /\ Root(tree) = Leaf("real_literal"))
    /\ text # <<>> /\ text[1] \in {"+", "-"} /\ RealShape(Tail(text))
       /\ Finished =>
         /\ tokens = <<text[1], "real_literal", End>>
         /\ (pc = "accepted" /\ \A tree \in Trees :
              Root(tree) = Node("prefix_expression",
                                <<Leaf(text[1]), RealLeaf>>))

C10_Witness ==
  /\ pc = "accepted"
  /\ text = <<"-", ".", "1">>
  /\ tokens = <<"-", "real_literal", End>>
  /\ \A tree \in Trees : Root(tree).kind = "prefix_expression"

(***************************************************************************)
(* String literals.                                                        *)
(***************************************************************************)
StringKinds == {"line_string_literal", "multi_line_string_literal"}

\* The children of the node n that have the kind.
ChildrenOf(n, kind) == {i \in DOMAIN n.kids : n.kids[i].kind = kind}

\* The nodes of the tree that have the kind.
NodesOf(tree, kind) == {n \in Nodes(tree) : n.kind = kind}

\* C11: "Sample $string.interpolation literal" is one line string literal
\* with exactly one interpolated_identifier child, which covers the one
\* simple identifier after the '$'; the text that follows the identifier
\* is literal text of the string.
C11_InterpolatedIdentifierIsChild ==
  text = CorpusInterpolatedIdentifier /\ Finished =>
    /\ tokens = <<"\"", "_line_str_text", "$", Id, "_line_str_text", "\"", End>>
    /\ Lexeme(4) = <<"s", "t", "r", "i", "n", "g">>
    /\ (pc = "accepted" /\ \A tree \in Trees :
         /\ Cardinality(NodesOf(tree, "line_string_literal")) = 1
         /\ Cardinality(NodesOf(tree, "interpolated_identifier")) = 1
         /\ \A n \in NodesOf(tree, "line_string_literal") :
              Cardinality(ChildrenOf(n, "interpolated_identifier")) = 1)

\* C12: in "Sample ${"string.interpolation"} literal" the quotes inside the
\* braces open and close a nested string and do not end the enclosing one:
\* the text is one statement, a string literal, and the nested string
\* literal is a child of an interpolated_expression node.
C12_NestedStringIsChild ==
  text = CorpusInterpolatedExpression /\ Finished =>
    (pc = "accepted" /\ \A tree \in Trees :
       /\ Len(StatementsOf(tree)) = 1
       /\ Root(tree).kind = "string_literal"
       /\ Cardinality(NodesOf(tree, "string_literal")) = 2
       /\ Cardinality(NodesOf(tree, "interpolated_expression")) = 1
       /\ \A e \in NodesOf(tree, "interpolated_expression") :
            ChildrenOf(e, "string_literal") # {})

TripleQuote == <<"\"", "\"", "\"">>

\* The text is a triple quote, a content and a triple quote.
IsMultiLineText ==
  /\ Len(text) >= 6
  /\ SubSeq(text, 1, 3) = TripleQuote
  /\ SubSeq(text, Len(text) - 2, Len(text)) = TripleQuote

\* The content has no '$', and no quote of it belongs to a triple quote.
PlainContent(body) ==
  /\ \A i \in DOMAIN body : body[i] # "$"
  /\ \A i \in 1..(Len(body) - 2) : SubSeq(body, i, i + 2) # TripleQuote
  /\ body # <<>> => body[Len(body)] # "\""

\* C13: a multi-line string literal ends only at a triple quote; backslashes
\* and single double quotes of its content are ordinary text, and its only
\* structured children are interpolations.
C13_MultiLineContentIsText ==
  /\ IsMultiLineText /\ PlainContent(SubSeq(text, 4, Len(text) - 3))
     /\ Finished =>
       (pc = "accepted" /\ \A tree \in Trees :
          /\ Len(StatementsOf(tree)) = 1
          /\ Root(tree).kind = "string_literal"
          /\ Root(tree).kids[1].kind = "multi_line_string_literal"
          /\ \A i \in DOMAIN Root(tree).kids[1].kids :
               Root(tree).kids[1].kids[i]
                 \in {Leaf("\"\"\""), Leaf("_multi_line_str_text"),
                      Leaf("\"")})
  /\ pc = "accepted" =>
       \A tree \in Trees : \A n \in NodesOf(tree, "multi_line_string_literal") :
         \A i \in DOMAIN n.kids :
           \/ n.kids[i] \in {Leaf("\"\"\""), Leaf("_multi_line_str_text"),
                             Leaf("\"")}
           \/ n.kids[i].kind = "interpolation_"

EscapedCharacters == {"t", "b", "r", "n", "'", "\"", "\\", "$"}

RECURSIVE WellFormed(_, _)
\* The content from its i-th character on is made of text, of the escapes
\* and of interpolations; what follows a "${" is not looked at.
WellFormed(body, i) ==
  IF i > Len(body) THEN TRUE
  ELSE IF body[i] = "\\"
  THEN \/ /\ i + 1 <= Len(body)
          /\ body[i + 1] \in EscapedCharacters
          /\ WellFormed(body, i + 2)
       \/ /\ i + 5 <= Len(body)
          /\ body[i + 1] = "u"
          /\ \A k \in (i + 2)..(i + 5) : body[k] \in HexDigit
          /\ WellFormed(body, i + 6)
  ELSE IF body[i] = "$"
  THEN /\ i + 1 <= Len(body)
       /\ \/ body[i + 1] = "{"
          \/ body[i + 1] \in Letter \cup {"_"} /\ WellFormed(body, i + 2)
  ELSE body[i] # "\"" /\ WellFormed(body, i + 1)

\* The text is accepted as one line string literal that begins with the
\* first and ends with the last character.
AcceptedLineString ==
  /\ pc = "accepted"
  /\ Len(tokens) >= 3
  /\ tokens[1] = "\""
  /\ tokens[Len(tokens) - 1] = "\""
  /\ lexemes[1].from = 1
  /\ lexemes[Len(tokens) - 1].to = Len(text)
  /\ \E tree \in Trees :
       /\ Len(StatementsOf(tree)) = 1
       /\ Root(tree).kind = "string_literal"
       /\ Root(tree).kids[1].kind = "line_string_literal"

\* C14: in an accepted line string literal every backslash starts one of
\* the escapes and every '$' starts an interpolation; a line string with
\* another backslash sequence or another '$' is not accepted.
C14_LineContentIsWellFormed ==
  AcceptedLineString => WellFormed(SubSeq(text, 2, Len(text) - 1), 1)

(***************************************************************************)
(* The parts of a program.                                                 *)
(***************************************************************************)
\* The place of a part in the order of the parts.
Rank ==
  [shebang_line |-> 1, file_annotation |-> 2, package_header |-> 3,
   import |-> 4, statement |-> 5]

\* The kinds of the parts, in the order of the sequence.
KindsOf(parts) ==
  [i \in DOMAIN parts |-> parts[i].kind]

\* At most one shebang line, the file annotations, at most one package
\* header, the imports, the statements.
InOrder(kinds) ==
  /\ \A i, j \in DOMAIN kinds : i < j => Rank[kinds[i]] <= Rank[kinds[j]]
  /\ \A i, j \in DOMAIN kinds :
       i < j /\ kinds[i] = kinds[j] =>
         kinds[i] \notin {"shebang_line", "package_header"}

\* The part that begins with the token.
PartOf(t) ==
  CASE t = "#!" -> "shebang_line"
    [] t = "@" -> "file_annotation"
    [] t = "package" -> "package_header"
    [] t = "import" -> "import"
    [] OTHER -> "statement"

\* The parts of a text that is made of whole parts.
PartsOfTokens ==
  LET first == SelectSeq(tokens,
                         LAMBDA t : t \in {"#!", "@", "package", "import",
                                           "integer_literal"})
  IN  [i \in DOMAIN first |-> PartOf(first[i])]

\* C15: the parts of an accepted program stand in one order, and a text
\* whose parts stand in another order is not accepted.
C15_PartsInOrder ==
  /\ pc = "accepted" =>
       \A tree \in Trees :
         LET parts == SelectSeq(tree.kids, LAMBDA n : n.kind # "blank")
         IN  /\ InOrder(KindsOf(parts))
             /\ \A i \in DOMAIN parts :
                  /\ parts[i].field = "import_list"
                       <=> parts[i].kind = "import"
                  /\ parts[i].field = "statement_list"
                       <=> parts[i].kind = "statement"
  /\ Finished /\ tokens \in UNION {PartPrograms(n) : n \in 0..MaxParts} =>
       /\ pc = "accepted" <=> InOrder(PartsOfTokens)
       /\ pc = "accepted" =>
            \A tree \in Trees :
              KindsOf(SelectSeq(tree.kids, LAMBDA n : n.kind # "blank"))
                = PartsOfTokens

C15_Witness ==
  /\ pc = "accepted"
  /\ tokens = <<"#!", "[^\\r\\n]*">>
                \o <<"import", Id, End>> \o <<"integer_literal", End>>
  /\ \A tree \in Trees :
       KindsOf(tree.kids)
         = <<"shebang_line", "import", "statement">>

(***************************************************************************)
(* The leaves of the tree and the text.                                    *)
(***************************************************************************)
RECURSIVE Leaves(_), LeavesOfAll(_)
\* The leaves of a tree, from left to right.
Leaves(n) ==
  IF n.kind = "blank" THEN <<>>
  ELSE IF n.kids = <<>> THEN <<n.kind>>
  ELSE LeavesOfAll(n.kids)

LeavesOfAll(kids) ==
  IF kids = <<>> THEN <<>>
  ELSE Leaves(Head(kids)) \o LeavesOfAll(Tail(kids))

RECURSIVE LeafTexts(_)
\* The texts of the tokens from the i-th on, one after the other.
LeafTexts(i) ==
  IF i > Len(tokens) THEN <<>> ELSE Lexeme(i) \o LeafTexts(i + 1)

\* The text is on one line and has no comment.
OneLineWithoutComment == \A i \in DOMAIN text : text[i] \notin {"\n", "/"}

\* C16: the leaves of the tree of an accepted text are its tokens, and their
\* texts, one after the other, are the text.
C16_LeafTextsAreTheText ==
  pc = "accepted" /\ OneLineWithoutComment =>
    /\ \A tree \in Trees :
         Len(Leaves(tree))
           = Cardinality({i \in DOMAIN tokens : tokens[i] # End})
    /\ LeafTexts(1) = text

(***************************************************************************)
(* The automatic terminator.                                               *)
(***************************************************************************)
\* The tokens with ';' in the place of every automatic terminator.
Explicit(toks) ==
  [i \in DOMAIN toks |-> IF toks[i] = End THEN ";" ELSE toks[i]]

RECURSIVE Shape(_)
\* The tree without the leaves of its explicit terminators.
Shape(n) ==
  LET kept == SelectSeq(n.kids, LAMBDA k : k # Leaf(";"))
  IN  [n EXCEPT !.kids = [i \in DOMAIN kept |-> Shape(kept[i])]]

LeavesOfTokens(toks) ==
  [i \in DOMAIN toks |-> IF toks[i] = Id THEN "lexical_identifier_"
                         ELSE toks[i]]

\* n is an if node with one else_if_clause and an else_clause, which hold
\* the tokens of the three clauses; no if node is the body of the else.
IsChainOf(n, c1, s1, c2, s2, s3) ==
  /\ n.kind = "if"
  /\ Len(n.kids) = 3
  /\ n.kids[1].kind = "if_clause"
  /\ Leaves(n.kids[1]) = LeavesOfTokens(IfClause(c1, s1))
  /\ n.kids[2].kind = "else_if_clause"
  /\ n.kids[2].field = "else_if_clause_list"
  /\ Leaves(n.kids[2]) = LeavesOfTokens(<<"else">> \o IfClause(c2, s2))
  /\ n.kids[3].kind = "else_clause"
  /\ n.kids[3].field = "else_clause_optional"
  /\ Leaves(n.kids[3]) = LeavesOfTokens(<<"else">> \o s3)
  /\ \A b \in NodesOf(n.kids[3], "control_structure_body") :
       b \in NodesOf(n.kids[1], "control_structure_body")
             \cup NodesOf(n.kids[2], "control_structure_body")
       \/ Unwrap(b.kids[1].kids[1]).kind # "if"

PlaceholderFields ==
  [program |-> {"import_list", "statement_list"},
   try |-> {"catch_list", "finally_clause_optional"},
   if |-> {"else_if_clause_list", "else_clause_optional"},
   function |-> {"type_optional"},
   function_value_parameters_ |-> {"parameter_list"}]

\* The children of n that the field is bound to.
Bound(n, field_name) ==
  {i \in DOMAIN n.kids : n.kids[i].field = field_name}

\* The field is bound to blank, or to nodes none of which is blank.
BoundOnce(n, field_name) ==
  LET at == Bound(n, field_name)
  IN  /\ at # {}
      /\ \/ \A i \in at : n.kids[i].kind # "blank"
         \/ Cardinality(at) = 1 /\ \A i \in at : n.kids[i].kind = "blank"

\* The field of the one node of the kind is bound to blank.
BoundToBlank(tree, kind, field_name) ==
  \A n \in NodesOf(tree, kind) :
    n.kids # <<>> => \E i \in Bound(n, field_name) : n.kids[i].kind = "blank"

Has(kind) == \E i \in DOMAIN tokens : tokens[i] = kind

\* C19: in every tree of an accepted input, every program, try, if and
\* function node (a node with children, not the keyword's token) has each of its placeholder fields, every function node
\* has a parameter list whose field parameter_list is bound, and a field is
\* bound to blank exactly when its rule matched nothing: the catch_list
\* without a 'catch', the finally_clause_optional without a 'finally', the
\* else_clause_optional without an 'else', the type of a function without
\* a ':' after its parameters, both fields of the program of the empty
\* input.
C19_PlaceholderFieldsAlwaysBound ==
  pc = "accepted" =>
    \A tree \in Trees :
      /\ \A n \in Nodes(tree) :
           /\ n.kind \in DOMAIN PlaceholderFields /\ n.kids # <<>> =>
                \A f \in PlaceholderFields[n.kind] : BoundOnce(n, f)
           /\ n.kind = "function" =>
                \E i \in DOMAIN n.kids :
                  n.kids[i].kind = "function_value_parameters_"
      /\ Has("try") =>
           /\ BoundToBlank(tree, "try", "catch_list") <=> ~Has("catch")
           /\ BoundToBlank(tree, "try", "finally_clause_optional")
                <=> ~Has("finally")
      /\ Has("if") /\ ~Has("else") =>
           BoundToBlank(tree, "if", "else_clause_optional")
      /\ Has("fun") =>
           /\ BoundToBlank(tree, "function", "type_optional")
                <=> tokens[Len(tokens) - 2] # ":"
           /\ BoundToBlank(tree, "function_value_parameters_",
                           "parameter_list")
                <=> tokens[4] = ")"
      /\ Len(tokens) = 0 =>
           /\ BoundToBlank(tree, "program", "import_list")
           /\ BoundToBlank(tree, "program", "statement_list")

\* 'try { }' is accepted, and the catch_list and the
\* finally_clause_optional of its try node are bound to blank.
C19_Witness ==
  /\ pc = "accepted"
  /\ tokens = <<"try", "{", "}", End>>
  /\ \E tree \in Trees :
       \E n \in NodesOf(tree, "try") :
         /\ \E i \in Bound(n, "catch_list") : n.kids[i].kind = "blank"
         /\ \E i \in Bound(n, "finally_clause_optional") :
              n.kids[i].kind = "blank"

(***************************************************************************)
(* Declared associativity.                                                 *)
(***************************************************************************)
\* The nodes of the operator productions: an assignment is the statement
\* that begins with a directly_assignable_expression, not the alias of
\* property_assignment in a variable_declaration.
IsOperatorProduction(n) ==
  /\ n.kids # <<>>
  /\ n.kind \in DOMAIN Production
  /\ n.kind = "assignment" =>
       n.kids[1].kind = "directly_assignable_expression"

\* C20: the production of every operator node of an accepted tree is
\* declared right-associative when it is the prefix-unary production or an
\* assignment production ('=' and the compound operators), and
\* left-associative otherwise.
C20_AssignmentAndPrefixDeclaredRight ==
  pc = "accepted" =>
    \A tree \in Trees :
      \A n \in Nodes(tree) :
        IsOperatorProduction(n) =>
          Production[n.kind].assoc
            = IF n.kind \in {"prefix_expression", "assignment"}
              THEN "right" ELSE "left"

====
